---- MODULE Spec2Model ----
(***************************************************************************)
(* Model of the payroll workbook patch engine and of the name matcher of   *)
(* src/fill_payroll_workbook_from_hours.py.                                 *)
(*                                                                         *)
(* A worksheet is a record [rows, merges, dim]: the <row> children of      *)
(* sheetData in document order, the mergeCell 'ref' attributes and the     *)
(* dimension 'ref' attribute.  A formula text is modelled by the sequence  *)
(* of the cell-reference tokens that FORMULA_CELL_REF_RE finds in it (the  *)
(* text between the tokens is kept in the field fn); a range reference is  *)
(* the sequence of its ':'-separated parts.                                *)
(***************************************************************************)
EXTENDS Integers, Sequences, FiniteSets, TLC

VARIABLES
    sheet,      \* the worksheet tree (sheet1_root): rows, merges, dim
    prev,       \* the worksheet before the last operation (history)
    lastOp,     \* the last operation applied and its arguments (history)
    nOps,       \* number of operations applied so far
    pc,         \* position inside fill_workbook / build_employee_rows_from_roster
    counts,     \* len(grouped[company]) for every company of the roster
    insertions, \* build_employee_rows_from_roster: insertions
    company_slots, \* build_employee_rows_from_roster: company_slots
    cur,        \* index of the company the current loop is at
    writes,     \* number of calls of the formula builder / value writer so far
    reimbursement_row, \* fill_workbook: reimbursement_row
    employee_rows,     \* fill_workbook: employee_rows (row number, name, company)
    workbook_names,    \* match_names: candidates
    source_names,      \* match_names: queries
    qi,                \* match_names: index of the next query
    used_workbook_names, \* match_names: claimed candidates
    source_to_workbook,  \* match_names: mapping, as a sequence of <<query, candidate>>
    unmatched_sources,   \* match_names: unmatched queries, in order
    passOf,              \* history: the pass that settled each query
    hours_csv,           \* the rows of the hours CSV (input)
    tips_csv,            \* the rows of the tips CSV (input)
    row_i,               \* index of the next row of the CSV reader
    format_mode,         \* load_tips_csv: format_mode
    hours_by_source_name,  \* load_hours_csv: totals, items in insertion order
    unknown_companies,     \* load_hours_csv: unknown_companies
    tip_totals_by_source_name,           \* load_tips_csv: totals
    tip_source_breakdown_by_source_name, \* load_tips_csv: totals_by_source
    unknown_tip_notes,                   \* load_tips_csv: unknown_tip_notes
    archive,             \* the parts of the template archive (input)
    fs,                  \* the files: the content at each path
    output_path,         \* fill_workbook: output_path
    tip_summary_output_path, \* fill_workbook: tip_summary_output_path
    infolist,            \* zin.infolist(): the part names read when zin was opened
    item_i,              \* index of the next item of the copy loop
    sheet1_bytes,        \* fill_workbook: sheet1_bytes
    workbook_bytes,      \* fill_workbook: workbook_bytes
    updated_workbook_rels_bytes, \* fill_workbook: updated_workbook_rels_bytes
    remove_calc_chain_part,      \* fill_workbook: remove_calc_chain_part
    error,               \* the exception fill_workbook raised, "none" for none
    namespace_map,       \* xml.etree.ElementTree._namespace_map (one per process)
    thread_pc,           \* position of each worker thread inside fill_workbook
    thread_rels,         \* whether the rels of each thread's template list calcChain
    thread_out           \* the prefixes of the fragments each thread serialized

vars == <<sheet, prev, lastOp, nOps, pc, counts, insertions, company_slots, cur,
          writes, reimbursement_row, employee_rows, workbook_names, source_names, qi,
          used_workbook_names, source_to_workbook, unmatched_sources, passOf,
          hours_csv, tips_csv, row_i, format_mode, hours_by_source_name,
          unknown_companies, tip_totals_by_source_name, tip_source_breakdown_by_source_name,
          unknown_tip_notes, archive, fs, output_path, tip_summary_output_path,
          infolist, item_i, sheet1_bytes, workbook_bytes, updated_workbook_rels_bytes,
          remove_calc_chain_part, error, namespace_map, thread_pc, thread_rels,
          thread_out>>

shiftVars == <<sheet, prev, lastOp, nOps>>
fillVars  == <<pc, counts, insertions, company_slots, cur, writes, reimbursement_row,
               employee_rows>>
matchVars == <<workbook_names, source_names, qi, used_workbook_names,
               source_to_workbook, unmatched_sources, passOf>>
hourVars  == <<hours_csv, hours_by_source_name, unknown_companies>>
tipVars   == <<tips_csv, format_mode, tip_totals_by_source_name,
               tip_source_breakdown_by_source_name, unknown_tip_notes>>
dataVars  == <<row_i, hourVars, tipVars>>
\* The variables of the parts of fill_workbook around the worksheet patch.
packVars  == <<archive, fs, output_path, tip_summary_output_path, infolist, item_i,
               sheet1_bytes, workbook_bytes, updated_workbook_rels_bytes,
               remove_calc_chain_part, error>>
threadVars == <<namespace_map, thread_pc, thread_rels, thread_out>>
restVars  == <<packVars, threadVars>>
laterVars == <<dataVars, restVars>>

(***************************************************************************)
(* Sequence helpers                                                        *)
(***************************************************************************)
MapSeq(s, Op(_)) == [i \in 1..Len(s) |-> Op(s[i])]

Max(a, b) == IF a >= b THEN a ELSE b

\* The concatenation of ss[lo], ..., ss[hi], split in halves.
RECURSIVE FlattenRange(_, _, _)
FlattenRange(ss, lo, hi) ==
    IF lo > hi THEN <<>>
    ELSE IF lo = hi THEN ss[lo]
    ELSE FlattenRange(ss, lo, (lo + hi) \div 2)
         \o FlattenRange(ss, (lo + hi) \div 2 + 1, hi)

Flatten(ss) == FlattenRange(ss, 1, Len(ss))

RECURSIVE SumSeq(_)
SumSeq(s) == IF s = <<>> THEN 0 ELSE Head(s) + SumSeq(Tail(s))

(***************************************************************************)
(* Cell references and formulas                                            *)
(***************************************************************************)
\* One match of FORMULA_CELL_REF_RE: (\$?)([A-Z]{1,3})(\$?)(\d+)
Ref(colAbs, col, rowAbs, row) ==
    [colAbs |-> colAbs, col |-> col, rowAbs |-> rowAbs, row |-> row]

\* A relative reference such as K27.
Rel(col, row) == Ref(FALSE, col, FALSE, row)

\* A formula text: fn is the text around the references, refs the references.
Formula(fn, refs) == [fn |-> fn, refs |-> refs]

\* A cell element <c r=".." t=".."> with optional children <f>, <v>, <is>;
\* an absent child or attribute is the empty sequence.
Cell(col, row, t, f, fref, v, is) ==
    [col |-> col, row |-> row, t |-> t, f |-> f, fref |-> fref, v |-> v, is |-> is]

\* A row element <row r="..">; id is the row number the element had in the
\* template (0 for an element created by the program).
Row(r, cells, id) == [r |-> r, cells |-> cells, id |-> id]

(***************************************************************************)
(* Row insertion and formula shift engine                                  *)
(***************************************************************************)
\* repl of shift_formula_for_row_insert and the loop body of shift_ref_rows:
\* the row of a reference is renumbered when it is at or below start_row.
shift_ref_mut(m, start_row, delta) ==
    Ref(m.colAbs, m.col, m.rowAbs,
        IF m.row >= start_row /\ ~m.rowAbs THEN m.row + delta ELSE m.row)

shift_ref(m, start_row, delta) ==
    Ref(m.colAbs, m.col, m.rowAbs,
        IF m.row >= start_row THEN m.row + delta ELSE m.row)

shift_formula_for_row_insert_gt(formula, start_row, delta) ==
    IF formula.fn = "" \/ delta = 0
    THEN formula
    ELSE Formula(formula.fn,
                 MapSeq(formula.refs, LAMBDA m : shift_ref(m, start_row + 1, delta)))

shift_formula_for_row_insert(formula, start_row, delta) ==
    IF formula.fn = "" \/ delta = 0
    THEN formula
    ELSE Formula(formula.fn,
                 MapSeq(formula.refs, LAMBDA m : shift_ref(m, start_row, delta)))

\* repl of shift_formula_for_row_copy: only a relative row is renumbered.
copy_ref(m, delta) ==
    Ref(m.colAbs, m.col, m.rowAbs, IF ~m.rowAbs THEN m.row + delta ELSE m.row)

shift_formula_for_row_copy_all(formula, delta) ==
    IF formula.fn = "" \/ delta = 0
    THEN formula
    ELSE Formula(formula.fn,
                 MapSeq(formula.refs,
                        LAMBDA m : Ref(m.colAbs, m.col, m.rowAbs, m.row + delta)))

shift_formula_for_row_copy(formula, delta) ==
    IF formula.fn = "" \/ delta = 0
    THEN formula
    ELSE Formula(formula.fn, MapSeq(formula.refs, LAMBDA m : copy_ref(m, delta)))

\* A range text "X:Y" is the sequence of its parts.
shift_ref_rows(ref_text, start_row, delta) ==
    IF ref_text = <<>> \/ delta = 0
    THEN ref_text
    ELSE MapSeq(ref_text, LAMBDA m : shift_ref(m, start_row, delta))

\* The body of the cell loop of shift_rows_in_sheet.
shift_cell(cell, start_row, delta) ==
    Cell(cell.col,
         IF cell.row >= start_row THEN cell.row + delta ELSE cell.row,
         cell.t,
         MapSeq(cell.f, LAMBDA f : shift_formula_for_row_insert(f, start_row, delta)),
         IF cell.f # <<>> THEN shift_ref_rows(cell.fref, start_row, delta) ELSE cell.fref,
         cell.v, cell.is)

\* The body of the row loop of shift_rows_in_sheet.
shift_row(row, start_row, delta) ==
    Row(IF row.r >= start_row THEN row.r + delta ELSE row.r,
        MapSeq(row.cells, LAMBDA c : shift_cell(c, start_row, delta)),
        row.id)

shift_rows_in_sheet(sh, start_row, delta) ==
    IF delta = 0
    THEN sh
    ELSE [rows   |-> MapSeq(sh.rows, LAMBDA row : shift_row(row, start_row, delta)),
          merges |-> MapSeq(sh.merges, LAMBDA ref : shift_ref_rows(ref, start_row, delta)),
          dim    |-> shift_ref_rows(sh.dim, start_row, delta)]

\* Index of the first row whose number is greater than target_row, or
\* Len(rows) + 1 when there is none.
first_greater(rows, target_row) ==
    IF \E i \in 1..Len(rows) : rows[i].r > target_row
    THEN CHOOSE i \in 1..Len(rows) :
             /\ rows[i].r > target_row
             /\ \A j \in 1..(i - 1) : ~(rows[j].r > target_row)
    ELSE Len(rows) + 1

InsertAt(s, i, e) == SubSeq(s, 1, i - 1) \o <<e>> \o SubSeq(s, i, Len(s))

insert_row_in_order(rows, row_elem) ==
    InsertAt(rows, first_greater(rows, row_elem.r), row_elem)

\* The cell loop of clone_template_row.
clone_cell(cell, target_row, delta) ==
    Cell(cell.col, target_row, cell.t,
         MapSeq(cell.f, LAMBDA f : shift_formula_for_row_copy(f, delta)),
         IF cell.f # <<>> /\ cell.f[1].fn # "" THEN <<>> ELSE cell.fref,
         IF cell.f # <<>> THEN <<>> ELSE cell.v,
         cell.is)

clone_template_row(rows, template_row, target_row) ==
    insert_row_in_order(rows,
        Row(target_row,
            MapSeq(template_row.cells,
                   LAMBDA c : clone_cell(c, target_row, target_row - template_row.r)),
            0))

\* Index of the first row numbered row_number, 0 when there is none.
row_index(rows, row_number) ==
    IF \E i \in 1..Len(rows) : rows[i].r = row_number
    THEN CHOOSE i \in 1..Len(rows) :
             /\ rows[i].r = row_number
             /\ \A j \in 1..(i - 1) : rows[j].r # row_number
    ELSE 0

\* get_or_create_row without the search for an existing row.
get_or_create_row_new(rows, row_number) ==
    InsertAt(rows, first_greater(rows, row_number), Row(row_number, <<>>, 0))

\* get_or_create_row: the rows after the call (a missing row is created in order).
get_or_create_row(rows, row_number) ==
    IF row_index(rows, row_number) # 0
    THEN rows
    ELSE InsertAt(rows, first_greater(rows, row_number), Row(row_number, <<>>, 0))

(***************************************************************************)
(* Document model accessor: cells and rows created on demand, in order     *)
(***************************************************************************)
Letters == << "A", "B", "C", "D", "E", "F", "G", "H", "I", "J", "K", "L", "M",
              "N", "O", "P", "Q", "R", "S", "T", "U", "V", "W", "X", "Y", "Z" >>

\* ord(char) - ord("A") + 1
LetterValue(char) == CHOOSE i \in 1..26 : Letters[i] = char

RECURSIVE column_index_from(_, _)
column_index_from(value, column) ==
    IF column = <<>>
    THEN value
    ELSE column_index_from(value * 26 + LetterValue(Head(column)), Tail(column))

column_index(column) == column_index_from(0, column)

\* Index of the first cell whose address is column + row_number, 0 if none.
cell_index(cells, column, row_number) ==
    IF \E i \in 1..Len(cells) : cells[i].col = column /\ cells[i].row = row_number
    THEN CHOOSE i \in 1..Len(cells) :
             /\ cells[i].col = column /\ cells[i].row = row_number
             /\ \A j \in 1..(i - 1) :
                   ~(cells[j].col = column /\ cells[j].row = row_number)
    ELSE 0

\* insert_cell_in_order without the search for a later column.
insert_cell_at_end(cells, new_cell, target_column) == Append(cells, new_cell)

\* CELL_REF_RE.fullmatch(ref) for the address of a cell: letters A-Z, then
\* digits.  An address without digits is a cell with a negative row, one
\* without letters a cell with the empty column.
LetterSet == {Letters[k] : k \in 1..26}

CELL_REF_RE_fullmatch(cell) ==
    /\ cell.col # <<>>
    /\ \A i \in 1..Len(cell.col) : cell.col[i] \in LetterSet
    /\ cell.row >= 0

insert_cell_in_order(cells, new_cell, target_column) ==
    LET target_idx == column_index(target_column)
        after(i) == /\ CELL_REF_RE_fullmatch(cells[i])
                    /\ column_index(cells[i].col) > target_idx
    IN  IF \E i \in 1..Len(cells) : after(i)
        THEN InsertAt(cells,
                      CHOOSE i \in 1..Len(cells) :
                          after(i) /\ \A j \in 1..(i - 1) : ~after(j),
                      new_cell)
        ELSE Append(cells, new_cell)

\* The cells of a row once the cell column + row_number exists.
with_cell(cells, column, row_number) ==
    IF cell_index(cells, column, row_number) # 0
    THEN cells
    ELSE insert_cell_in_order(cells,
                              Cell(column, row_number, "", <<>>, <<>>, <<>>, <<>>),
                              column)

\* set_numeric_cell without the removal of the type attribute.
set_numeric_cell_keep_type(cells, row_number, column, value, preserve_formula) ==
    LET found == cell_index(cells, column, row_number)
    IN  IF preserve_formula /\ found # 0 /\ cells[found].f # <<>>
        THEN cells
        ELSE LET cs == with_cell(cells, column, row_number)
                 i  == cell_index(cs, column, row_number)
             IN  [cs EXCEPT ![i] = Cell(column, row_number, cs[i].t, <<>>, <<>>,
                                        <<value>>, <<>>)]

\* set_numeric_cell on the cells of row_elem; value stands for the decimal
\* text format_decimal_for_excel(value).
set_numeric_cell(cells, row_number, column, value, preserve_formula) ==
    LET found == cell_index(cells, column, row_number)
    IN  IF preserve_formula /\ found # 0 /\ cells[found].f # <<>>
        THEN cells
        ELSE LET cs == with_cell(cells, column, row_number)
                 i  == cell_index(cs, column, row_number)
             IN  [cs EXCEPT ![i] = Cell(column, row_number, "", <<>>, <<>>, <<value>>, <<>>)]

set_inline_string_cell(cells, row_number, column, value) ==
    LET cs == with_cell(cells, column, row_number)
        i  == cell_index(cs, column, row_number)
    IN  [cs EXCEPT ![i] = Cell(column, row_number, "inlineStr", <<>>, <<>>, <<>>, <<value>>)]

\* set_formula_cell on sheet_data; cell_type "" stands for None.
set_formula_cell(rows, row_number, column, formula, cell_type) ==
    LET rs == get_or_create_row(rows, row_number)
        r  == row_index(rs, row_number)
        cs == with_cell(rs[r].cells, column, row_number)
        i  == cell_index(cs, column, row_number)
    IN  [rs EXCEPT ![r].cells =
            [cs EXCEPT ![i] = Cell(column, row_number, cell_type,
                                   <<formula>>, <<>>, <<>>, <<>>)]]

set_formula_string_cell(rows, row_number, column, formula) ==
    set_formula_cell(rows, row_number, column, formula, "str")

\* A call of a setter recorded as data: kind "f" (set_formula_cell), "n"
\* (set_numeric_cell), "s" (set_inline_string_cell).
FWrite(row_number, column, formula) ==
    [kind |-> "f", row |-> row_number, col |-> column, formula |-> formula,
     t |-> "", num |-> 0, str |-> "", preserve |-> FALSE]

NWrite(row_number, column, value, preserve_formula) ==
    [kind |-> "n", row |-> row_number, col |-> column, formula |-> Formula("", <<>>),
     t |-> "", num |-> value, str |-> "", preserve |-> preserve_formula]

SWrite(row_number, column, value) ==
    [kind |-> "s", row |-> row_number, col |-> column, formula |-> Formula("", <<>>),
     t |-> "", num |-> 0, str |-> value, preserve |-> FALSE]

\* One setter call on the rows of sheet_data; the value setters work on the
\* row element that get_or_create_row returned for the row number.
apply_write(rows, w) ==
    IF w.kind = "f"
    THEN set_formula_cell(rows, w.row, w.col, w.formula, w.t)
    ELSE LET rs == get_or_create_row(rows, w.row)
             r  == row_index(rs, w.row)
         IN  [rs EXCEPT ![r].cells =
                 IF w.kind = "n"
                 THEN set_numeric_cell(rs[r].cells, w.row, w.col, w.num, w.preserve)
                 ELSE set_inline_string_cell(rs[r].cells, w.row, w.col, w.str)]

\* The setter calls ws[lo], ..., ws[hi] applied in order.  The calls are
\* split in halves and the first half is evaluated (its length is taken)
\* before the second, which keeps the evaluation shallow.
RECURSIVE apply_writes_range(_, _, _, _)
apply_writes_range(rows, ws, lo, hi) ==
    IF lo > hi THEN rows
    ELSE IF lo = hi THEN apply_write(rows, ws[lo])
    ELSE LET first == apply_writes_range(rows, ws, lo, (lo + hi) \div 2)
         IN  IF Len(first) >= 0
             THEN apply_writes_range(first, ws, (lo + hi) \div 2 + 1, hi)
             ELSE first

\* The setter calls of a sequence, applied in order.
apply_writes(rows, ws) == apply_writes_range(rows, ws, 1, Len(ws))

(***************************************************************************)
(* Company sections                                                        *)
(***************************************************************************)
colA == <<"A">>
colB == <<"B">>
colC == <<"C">>
colD == <<"D">>
colE == <<"E">>
colF == <<"F">>
colG == <<"G">>
colH == <<"H">>
colI == <<"I">>
colJ == <<"J">>
colK == <<"K">>
colL == <<"L">>
colM == <<"M">>
colN == <<"N">>
colO == <<"O">>
colP == <<"P">>
colQ == <<"Q">>

\* The keys of COMPANY_ROW_SLOTS in dictionary order.
Companies == << "scanio_moving", "scanio_storage", "sea_and_air_intl", "flat_price" >>

Range(a, b) == [i \in 1..(b - a + 1) |-> a + i - 1]

COMPANY_ROW_SLOTS ==
    << Range(5, 25), Range(33, 39), Range(47, 56), Range(64, 85) >>

\* format_decimal_for_excel(COMPANY_BURDEN_MULTIPLIER[company])
COMPANY_BURDEN_MULTIPLIER == << "1.18", "1.24", "1.18", "1.18" >>

map_row_with_insertions_none(original_row, ins) == original_row

RECURSIVE map_row_with_insertions(_, _)
map_row_with_insertions(original_row, ins) ==
    IF ins = <<>>
    THEN original_row
    ELSE map_row_with_insertions(
             IF original_row >= Head(ins)[1] THEN original_row + Head(ins)[2]
                                             ELSE original_row,
             Tail(ins))

MinOf(slots) == CHOOSE m \in {slots[i] : i \in 1..Len(slots)} :
                    \A i \in 1..Len(slots) : m <= slots[i]

MaxOf(slots) == CHOOSE m \in {slots[i] : i \in 1..Len(slots)} :
                    \A i \in 1..Len(slots) : m >= slots[i]

\* section_rows[company] of refresh_company_summary_formulas.
section_rows(slots) ==
    [start_row  |-> MinOf(slots),
     end_row    |-> MaxOf(slots),
     total_row  |-> MaxOf(slots) + 1,
     amount_row |-> MaxOf(slots) + 3]

(***************************************************************************)
(* Derived formula builder                                                 *)
(***************************************************************************)
\* The set_formula_cell calls of one iteration of the company loop of
\* refresh_company_summary_formulas.
company_summary_writes(company, slots) ==
    LET sec        == section_rows(slots)
        start_row  == sec.start_row
        end_row    == sec.end_row
        total_row  == sec.total_row
        amount_row == sec.amount_row
        burden     == COMPANY_BURDEN_MULTIPLIER[company]
        ColSum(c)  == FWrite(total_row, c,
                             Formula("SUM(_:_)", << Rel(c, start_row), Rel(c, end_row) >>))
        Weighted(c, w) ==
            FWrite(amount_row, c,
                   Formula("SUMPRODUCT(_:_,_:_)*" \o burden,
                           << Rel(colE, start_row), Rel(colE, end_row),
                              Rel(w, start_row), Rel(w, end_row) >>))
        Direct(c, w) ==
            FWrite(amount_row, c,
                   Formula("_*_*" \o burden, << Rel(colE, total_row), Rel(w, total_row) >>))
    IN  << ColSum(colD), ColSum(colM), ColSum(colO), ColSum(colQ),
           FWrite(amount_row, colE,
                  Formula("_+_", << Rel(colE, total_row), Rel(colG, total_row) >>)),
           FWrite(amount_row, colG,
                  Formula("SUM(_:_)/" \o burden,
                          << Rel(colH, amount_row), Rel(colJ, amount_row) >>)),
           FWrite(amount_row, colH,
                  Formula("_*" \o burden, << Rel(colH, total_row) >>)) >>
        \o
        (IF Companies[company] = "scanio_moving"
         THEN << FWrite(total_row, colL,
                        Formula("_/_", << Rel(colK, total_row), Rel(colQ, total_row) >>)),
                 FWrite(total_row, colN,
                        Formula("_/_", << Rel(colM, total_row), Rel(colQ, total_row) >>)),
                 FWrite(total_row, colP,
                        Formula("_/_", << Rel(colO, total_row), Rel(colD, total_row) >>)),
                 Direct(colK, colL), Direct(colM, colN), Direct(colO, colP) >>
         ELSE << Weighted(colK, colL), Weighted(colM, colN), Weighted(colO, colP) >>)
        \o
        << FWrite(amount_row, colQ,
                  Formula("(_+_+_)/" \o burden,
                          << Rel(colK, amount_row), Rel(colM, amount_row),
                             Rel(colO, amount_row) >>)),
           FWrite(amount_row + 1, colE,
                  Formula("_+_", << Rel(colG, amount_row), Rel(colQ, amount_row) >>)) >>

\* The set_formula_cell calls after the company loop: overtime, net due,
\* attributed total and reimbursement.
cross_section_writes(slots_of) ==
    LET scanio_totals  == section_rows(slots_of[1])
        storage_totals == section_rows(slots_of[2])
        sea_totals     == section_rows(slots_of[3])
        flat_totals    == section_rows(slots_of[4])
        overtime_row   == flat_totals.total_row + 5
        due_row        == flat_totals.total_row + 7
        reimb_row      == flat_totals.total_row + 15
    IN  << FWrite(overtime_row, colF,
                  Formula("_+_+_+_",
                          << Rel(colF, scanio_totals.total_row),
                             Rel(colF, storage_totals.total_row),
                             Rel(colF, sea_totals.total_row),
                             Rel(colF, flat_totals.total_row) >>)),
           FWrite(due_row, colC,
                  Formula("_+_-_-_-_-_",
                          << Rel(colK, sea_totals.amount_row),
                             Rel(colH, sea_totals.amount_row),
                             Rel(colM, scanio_totals.amount_row),
                             Rel(colI, scanio_totals.amount_row),
                             Rel(colM, storage_totals.amount_row),
                             Rel(colI, storage_totals.amount_row) >>)),
           FWrite(due_row, colQ,
                  Formula("_+_+_+_",
                          << Rel(colQ, flat_totals.total_row),
                             Rel(colQ, sea_totals.total_row),
                             Rel(colQ, storage_totals.total_row),
                             Rel(colQ, scanio_totals.total_row) >>)),
           FWrite(reimb_row, colF,
                  Formula("_+_+_+_",
                          << Rel(colG, flat_totals.amount_row),
                             Rel(colG, sea_totals.amount_row),
                             Rel(colG, storage_totals.amount_row),
                             Rel(colG, scanio_totals.amount_row) >>)) >>

\* All setter calls of refresh_company_summary_formulas, in call order.
refresh_company_summary_formulas(slots_of) ==
    Flatten([c \in 1..Len(Companies) |-> company_summary_writes(c, slots_of[c])])
    \o cross_section_writes(slots_of)

\* The return value of refresh_company_summary_formulas.
refresh_reimbursement_row(slots_of) == section_rows(slots_of[4]).total_row + 15

\* The set_formula_cell calls of set_employee_row_formulas.
set_employee_row_formulas(n) ==
    << FWrite(n, colD, Formula("SUM(_:_)", << Rel(colK, n), Rel(colO, n) >>)),
       FWrite(n, colE,
              Formula("IF(_>40,(_-40)*(_*1.5)+(_*40),_*_)",
                      << Rel(colD, n), Rel(colD, n), Rel(colC, n), Rel(colC, n),
                         Rel(colD, n), Rel(colC, n) >>)),
       FWrite(n, colF,
              Formula("IF(_>40,(_-40)*(_*0.5),0)",
                      << Rel(colD, n), Rel(colD, n), Rel(colC, n) >>)),
       FWrite(n, colG, Formula("SUM(_:_)", << Rel(colH, n), Rel(colJ, n) >>)),
       FWrite(n, colL, Formula("IFERROR(_/_,0)", << Rel(colK, n), Rel(colQ, n) >>)),
       FWrite(n, colN, Formula("IFERROR(_/_,0)", << Rel(colM, n), Rel(colQ, n) >>)),
       FWrite(n, colP, Formula("IFERROR(_/_,0)", << Rel(colO, n), Rel(colQ, n) >>)),
       FWrite(n, colQ, Formula("_+_+_", << Rel(colK, n), Rel(colM, n), Rel(colO, n) >>)) >>

\* reimbursement_status_formula(due_row)
reimbursement_status_formula(due_row) ==
    Formula("IF(_=0,\"No Scanio/SeaAir Reimbursement\",IF(_>0,\"Scanio Owes Sea & Air\",\"Sea & Air Owes Scanio\"))",
            << Rel(colC, due_row), Rel(colC, due_row) >>)

(***************************************************************************)
(* Overflow insertion and placement of the roster                          *)
(***************************************************************************)
insert_at_last(slots) == slots[Len(slots)]

\* insert_at of build_employee_rows_from_roster: the row after the last slot.
insert_at_of(slots) == slots[Len(slots)] + 1

\* The clones of the overflow loop: range(overflow) from index on.
RECURSIVE clone_overflow_rows(_, _, _, _, _)
clone_overflow_rows(rows, template_row, insert_at, index, overflow) ==
    IF index >= overflow
    THEN rows
    ELSE clone_overflow_rows(clone_template_row(rows, template_row, insert_at + index),
                             template_row, insert_at, index + 1, overflow)

\* One iteration of the slot loop of build_employee_rows_from_roster for a
\* company with n roster entries: the sheet, the slot list and the
\* insertions after it.
insert_overflow(sh, base_slots, ins, n) ==
    LET slots    == [i \in 1..Len(base_slots) |->
                        map_row_with_insertions(base_slots[i], ins)]
        overflow == n - Len(slots)
    IN  IF overflow > 0
        THEN LET insert_at == insert_at_of(slots)
                 rows1     == get_or_create_row(sh.rows, slots[Len(slots)])
                 t         == row_index(rows1, slots[Len(slots)])
                 shifted   == shift_rows_in_sheet([sh EXCEPT !.rows = rows1],
                                                  insert_at, overflow)
             IN  [sheet |-> [shifted EXCEPT
                                !.rows = clone_overflow_rows(shifted.rows, shifted.rows[t],
                                                             insert_at, 0, overflow)],
                  slots |-> slots \o [i \in 1..overflow |-> insert_at + i - 1],
                  ins   |-> Append(ins, <<insert_at, overflow>>),
                  insert_at |-> insert_at,
                  overflow  |-> overflow]
        ELSE [sheet |-> sh, slots |-> slots, ins |-> ins,
              insert_at |-> 0, overflow |-> 0]

\* The roster entries of a company sorted by normalized name: the k-th has
\* the name EntryName(company, k) and the rate EntryRate(company, k).
EntryName(company, k) == "c" \o ToString(company) \o "e" \o ToString(100 + k)

EntryRate(company, k) == 15 + company + k

\* The placement loop for one slot without the zeros of an unused slot.
place_slot_writes_named(company, idx, row_number, n) ==
    << SWrite(row_number, colA, "") >>
    \o set_employee_row_formulas(row_number)
    \o (IF idx <= n
        THEN << SWrite(row_number, colB, EntryName(company, idx)),
                NWrite(row_number, colC, EntryRate(company, idx), FALSE) >>
        ELSE << SWrite(row_number, colB, ""),
                NWrite(row_number, colC, 0, FALSE) >>)

\* The setter calls of the placement loop for one slot.
place_slot_writes(company, idx, row_number, n) ==
    << SWrite(row_number, colA, "") >>
    \o set_employee_row_formulas(row_number)
    \o (IF idx <= n
        THEN << SWrite(row_number, colB, EntryName(company, idx)),
                NWrite(row_number, colC, EntryRate(company, idx), FALSE) >>
        ELSE << SWrite(row_number, colB, ""),
                NWrite(row_number, colC, 0, FALSE),
                NWrite(row_number, colH, 0, FALSE),
                NWrite(row_number, colI, 0, FALSE),
                NWrite(row_number, colJ, 0, FALSE),
                NWrite(row_number, colK, 0, FALSE),
                NWrite(row_number, colM, 0, FALSE),
                NWrite(row_number, colO, 0, FALSE),
                NWrite(row_number, colG, 0, TRUE) >>)

\* The placement loop for one company over the slots lo..hi, in order
\* (split in halves as in apply_writes_range): the rows of sheet_data after it.
RECURSIVE place_slots(_, _, _, _, _, _)
place_slots(rows, company, slots, n, lo, hi) ==
    IF lo > hi THEN rows
    ELSE IF lo = hi
    THEN apply_writes(rows, place_slot_writes(company, lo, slots[lo], n))
    ELSE LET first == place_slots(rows, company, slots, n, lo, (lo + hi) \div 2)
         IN  IF Len(first) >= 0
             THEN place_slots(first, company, slots, n, (lo + hi) \div 2 + 1, hi)
             ELSE first

place_company(rows, company, slots, n) ==
    place_slots(rows, company, slots, n, 1, Len(slots))

\* The number of setter calls of the placement loop for one company.
place_company_calls(company, slots, n) ==
    SumSeq([idx \in 1..Len(slots) |-> Len(place_slot_writes(company, idx, slots[idx], n))])

\* The entries the placement loop appends to employee_rows for one company.
placed_entries(company, slots, n) ==
    [idx \in 1..(IF n < Len(slots) THEN n ELSE Len(slots)) |->
        [row_number |-> slots[idx], workbook_name |-> EntryName(company, idx),
         home_company |-> company]]

\* The hour writes of fill_workbook for one employee row; no source name is
\* matched, so every bucket is 0.
hour_writes(entry) ==
    << NWrite(entry.row_number, colK, 0, FALSE),
       NWrite(entry.row_number, colM, 0, FALSE),
       NWrite(entry.row_number, colO, 0, FALSE) >>

\* The hour writes of the employee loop of fill_workbook, in order.
fill_hours(rows, entries) ==
    apply_writes(rows, Flatten(MapSeq(entries, hour_writes)))

\* The order of the stages of a roster-driven fill_workbook: the slot loop
\* over all companies, the summary formulas, the placement loop over all
\* companies, the hour values, the status formula.
step_after_interleaved(stage, company) ==
    CASE stage = "insert"  -> [pc |-> "place", cur |-> company]
      [] stage = "place"   -> IF company < Len(Companies)
                              THEN [pc |-> "insert", cur |-> company + 1]
                              ELSE [pc |-> "refresh", cur |-> 0]
      [] stage = "refresh" -> [pc |-> "hours", cur |-> 0]
      [] stage = "hours"   -> [pc |-> "status", cur |-> 0]
      [] OTHER             -> [pc |-> "done", cur |-> 0]

step_after(stage, company) ==
    CASE stage = "insert"  -> IF company < Len(Companies)
                              THEN [pc |-> "insert", cur |-> company + 1]
                              ELSE [pc |-> "refresh", cur |-> 0]
      [] stage = "refresh" -> [pc |-> "place", cur |-> 1]
      [] stage = "place"   -> IF company < Len(Companies)
                              THEN [pc |-> "place", cur |-> company + 1]
                              ELSE [pc |-> "hours", cur |-> 0]
      [] stage = "hours"   -> [pc |-> "status", cur |-> 0]
      [] OTHER             -> [pc |-> "done", cur |-> 0]

(***************************************************************************)
(* Values of the variables a specification does not use                    *)
(***************************************************************************)
NoSheet == [rows |-> <<>>, merges |-> <<>>, dim |-> <<>>]

NoOp == [op |-> "none", start_row |-> 0, delta |-> 0, src |-> 0, tgt |-> 0]

ShiftIdle ==
    /\ sheet = NoSheet
    /\ prev = NoSheet
    /\ lastOp = NoOp
    /\ nOps = 0

FillIdle ==
    /\ pc = "idle"
    /\ counts = <<>>
    /\ insertions = <<>>
    /\ company_slots = <<>>
    /\ cur = 0
    /\ writes = 0
    /\ reimbursement_row = 0
    /\ employee_rows = <<>>

MatchIdle ==
    /\ workbook_names = <<>>
    /\ source_names = <<>>
    /\ qi = 0
    /\ used_workbook_names = {}
    /\ source_to_workbook = <<>>
    /\ unmatched_sources = <<>>
    /\ passOf = <<>>

DataIdle ==
    /\ hours_csv = <<>>
    /\ tips_csv = <<>>
    /\ row_i = 0
    /\ format_mode = "None"
    /\ hours_by_source_name = <<>>
    /\ unknown_companies = <<>>
    /\ tip_totals_by_source_name = <<>>
    /\ tip_source_breakdown_by_source_name = <<>>
    /\ unknown_tip_notes = <<>>

PackIdle ==
    /\ archive = <<>>
    /\ fs = <<>>
    /\ output_path = "None"
    /\ tip_summary_output_path = "None"
    /\ infolist = <<>>
    /\ item_i = 0
    /\ sheet1_bytes = <<>>
    /\ workbook_bytes = <<>>
    /\ updated_workbook_rels_bytes = <<>>
    /\ remove_calc_chain_part = FALSE
    /\ error = "none"

ThreadIdle ==
    /\ namespace_map = <<>>
    /\ thread_pc = <<>>
    /\ thread_rels = <<>>
    /\ thread_out = <<>>

RestIdle == PackIdle /\ ThreadIdle

LaterIdle == DataIdle /\ RestIdle

(***************************************************************************)
(* SpecShift: shift_rows_in_sheet and clone_template_row on small sheets   *)
(***************************************************************************)
MaxShiftRow == 4
MaxOps == 1
ShiftDeltas == {-1, 1, 2}

\* A sheet with rows r1 < r2.  Row r1 holds a number and a formula with a
\* cached value and a range annotation; row r2 holds a shared string and a
\* formula.  The formulas name row n1 (absolute when a1), row r2 absolutely
\* and their own row relatively; one merged range spans r1..n1.
ShiftSheet(r1, r2, a1, n1) ==
    [rows |->
        << Row(r1,
               << Cell(colB, r1, "", <<>>, <<>>, <<7>>, <<>>),
                  Cell(colC, r1, "",
                       << Formula("SUM(_:_)+_",
                                  << Ref(FALSE, colC, a1, n1),
                                     Ref(TRUE, colC, TRUE, r2),
                                     Rel(colB, r1) >>) >>,
                       << Rel(colC, r1), Rel(colC, r2) >>,
                       <<3>>, <<>>) >>,
               r1),
           Row(r2,
               << Cell(colA, r2, "s", <<>>, <<>>, <<0>>, <<>>),
                  Cell(colD, r2, "",
                       << Formula("_*_",
                                  << Ref(FALSE, colB, a1, n1), Rel(colB, r2) >>) >>,
                       <<>>, <<>>, <<>>) >>,
               r2) >>,
     merges |-> << << Rel(colB, r1), Ref(FALSE, colB, a1, n1) >> >>,
     dim    |-> << Rel(colA, 1), Rel(colQ, MaxShiftRow) >>]

InitShift ==
    /\ \E r1 \in 1..MaxShiftRow, r2 \in 1..MaxShiftRow, a1 \in BOOLEAN,
          n1 \in 1..MaxShiftRow :
          /\ r1 < r2
          /\ sheet = ShiftSheet(r1, r2, a1, n1)
    /\ prev = sheet
    /\ lastOp = NoOp
    /\ nOps = 0
    /\ FillIdle
    /\ MatchIdle
    /\ LaterIdle

RowNumbers(rows) == {rows[i].r : i \in 1..Len(rows)}

\* One call shift_rows_in_sheet(sheet_root, start_row, delta).  Rows are
\* only removed (delta < 0) where there are none.
DoShift ==
    /\ nOps < MaxOps
    /\ \E start_row \in 1..(MaxShiftRow + 1), delta \in ShiftDeltas :
          /\ start_row + delta >= 1
          /\ \A r \in RowNumbers(sheet.rows) : ~(start_row + delta <= r /\ r < start_row)
          /\ sheet' = shift_rows_in_sheet(sheet, start_row, delta)
          /\ lastOp' = [op |-> "shift", start_row |-> start_row, delta |-> delta,
                        src |-> 0, tgt |-> 0]
    /\ prev' = sheet
    /\ nOps' = nOps + 1
    /\ UNCHANGED <<fillVars, matchVars, laterVars>>

\* One call clone_template_row(sheet_data, template_row, target_row) with a
\* target row number that no row has.
DoClone ==
    /\ nOps < MaxOps
    /\ \E i \in 1..Len(sheet.rows), target_row \in 1..(MaxShiftRow + 2) :
          /\ target_row \notin RowNumbers(sheet.rows)
          /\ sheet' = [sheet EXCEPT
                          !.rows = clone_template_row(sheet.rows, sheet.rows[i], target_row)]
          /\ lastOp' = [op |-> "clone", start_row |-> 0, delta |-> 0,
                        src |-> sheet.rows[i].r, tgt |-> target_row]
    /\ prev' = sheet
    /\ nOps' = nOps + 1
    /\ UNCHANGED <<fillVars, matchVars, laterVars>>

NextShift == DoShift \/ DoClone

SpecShift == InitShift /\ [][NextShift]_vars

(***************************************************************************)
(* Reading the references of a sheet                                       *)
(***************************************************************************)
\* The references of the formula texts of a row, in document order.
RowFormulaRefs(row) ==
    Flatten(MapSeq(row.cells,
                   LAMBDA c : IF c.f = <<>> THEN <<>> ELSE c.f[1].refs))

\* The references of the formula 'ref' attributes of a row.
RowFormulaRangeRefs(row) ==
    Flatten(MapSeq(row.cells, LAMBDA c : IF c.f = <<>> THEN <<>> ELSE c.fref))

FormulaRefs(sh) == Flatten(MapSeq(sh.rows, RowFormulaRefs))

RangeRefs(sh) ==
    Flatten(MapSeq(sh.rows, RowFormulaRangeRefs)) \o Flatten(sh.merges) \o sh.dim

AllRefs(sh) == FormulaRefs(sh) \o RangeRefs(sh)

\* The rule of a row shift for one row number.
Shifted(n, start_row, delta) == IF n >= start_row THEN n + delta ELSE n

C2_InsertionLaw ==
    (lastOp.op = "shift" /\ lastOp.delta > 0) =>
        LET s == lastOp.start_row
            d == lastOp.delta
        IN  /\ Len(sheet.rows) = Len(prev.rows)
            /\ \A i \in 1..Len(prev.rows) :
                  /\ sheet.rows[i].r = Shifted(prev.rows[i].r, s, d)
                  /\ Len(sheet.rows[i].cells) = Len(prev.rows[i].cells)
                  /\ \A j \in 1..Len(prev.rows[i].cells) :
                        /\ sheet.rows[i].cells[j].col = prev.rows[i].cells[j].col
                        /\ sheet.rows[i].cells[j].row =
                               Shifted(prev.rows[i].cells[j].row, s, d)
            /\ Len(FormulaRefs(sheet)) = Len(FormulaRefs(prev))
            /\ \A i \in 1..Len(FormulaRefs(prev)) :
                  LET o == FormulaRefs(prev)[i]
                      n == FormulaRefs(sheet)[i]
                  IN  /\ n.col = o.col
                      /\ (~o.rowAbs /\ o.row >= s) => n.row = o.row + d
                      /\ o.row < s => n.row = o.row
            /\ Len(RangeRefs(sheet)) = Len(RangeRefs(prev))
            /\ \A i \in 1..Len(RangeRefs(prev)) :
                  /\ RangeRefs(sheet)[i].col = RangeRefs(prev)[i].col
                  /\ RangeRefs(sheet)[i].row = Shifted(RangeRefs(prev)[i].row, s, d)

\* A shift by delta > 0 below the first row: a formula of a row above the
\* insertion point names a relative row at or below it, and a merged range
\* starts above start_row and ends at or below it.
C2_Witness ==
    /\ lastOp.op = "shift"
    /\ lastOp.delta > 0
    /\ prev.rows[1].r < lastOp.start_row
    /\ \E k \in 1..Len(RowFormulaRefs(prev.rows[1])) :
          /\ ~RowFormulaRefs(prev.rows[1])[k].rowAbs
          /\ RowFormulaRefs(prev.rows[1])[k].row >= lastOp.start_row
          /\ RowFormulaRefs(sheet.rows[1])[k].row =
                 RowFormulaRefs(prev.rows[1])[k].row + lastOp.delta
    /\ prev.merges[1][1].row < lastOp.start_row
    /\ prev.merges[1][2].row >= lastOp.start_row
    /\ sheet.merges[1][1].row = prev.merges[1][1].row
    /\ sheet.merges[1][2].row = prev.merges[1][2].row + lastOp.delta
    /\ prev.rows[2].r >= lastOp.start_row
    /\ sheet.rows[2].r = prev.rows[2].r + lastOp.delta

(***************************************************************************)
(* C3: clone_template_row(template_row at row s, target_row t) produces a  *)
(* row numbered t whose cells are all addressed at row t; every relative   *)
(* row reference n of a formula becomes n + (t - s) and every absolute row *)
(* reference is unchanged; a formula cell of the clone has no cached value *)
(* and no 'ref' attribute; the template row is left unchanged.             *)
(***************************************************************************)
C3_RowCopyLaw ==
    lastOp.op = "clone" =>
        LET s == lastOp.src
            t == lastOp.tgt
            template == prev.rows[row_index(prev.rows, s)]
        IN  /\ row_index(sheet.rows, t) # 0
            /\ Len(sheet.rows) = Len(prev.rows) + 1
            /\ sheet.rows[row_index(sheet.rows, s)] = template
            /\ LET clone == sheet.rows[row_index(sheet.rows, t)]
               IN  /\ clone.r = t
                   /\ Len(clone.cells) = Len(template.cells)
                   /\ \A j \in 1..Len(template.cells) :
                         LET c == clone.cells[j]
                             o == template.cells[j]
                         IN  /\ c.col = o.col
                             /\ c.row = t
                             /\ (c.f = <<>>) = (o.f = <<>>)
                             /\ c.f # <<>> =>
                                   /\ c.v = <<>>
                                   /\ c.fref = <<>>
                                   /\ c.f[1].fn = o.f[1].fn
                                   /\ Len(c.f[1].refs) = Len(o.f[1].refs)
                                   /\ \A k \in 1..Len(o.f[1].refs) :
                                         LET m == o.f[1].refs[k]
                                             n == c.f[1].refs[k]
                                         IN  /\ n.col = m.col
                                             /\ n.colAbs = m.colAbs
                                             /\ n.rowAbs = m.rowAbs
                                             /\ n.row = IF m.rowAbs
                                                        THEN m.row
                                                        ELSE m.row + (t - s)

\* A clone to another row number of a template row whose formula has a
\* cached value, a range annotation, a relative and an absolute row.
C3_Witness ==
    /\ lastOp.op = "clone"
    /\ lastOp.tgt # lastOp.src
    /\ \E j \in 1..Len(prev.rows[row_index(prev.rows, lastOp.src)].cells) :
          LET o == prev.rows[row_index(prev.rows, lastOp.src)].cells[j]
          IN  /\ o.f # <<>>
              /\ o.v # <<>>
              /\ o.fref # <<>>
              /\ \E k \in 1..Len(o.f[1].refs) : o.f[1].refs[k].rowAbs
              /\ \E k \in 1..Len(o.f[1].refs) : ~o.f[1].refs[k].rowAbs
    /\ row_index(sheet.rows, lastOp.tgt) # 0

(***************************************************************************)
(* Spec: a roster-driven fill_workbook on the payroll template             *)
(***************************************************************************)
MaxOverflow == 1

\* The template worksheet, as far as the program relies on it: the slot
\* rows of the four sections (name, rate, commission total, hours), below
\* each section the total row with the template's column sums and the
\* amount rows, then the overtime, net-due and reimbursement rows.  The
\* template's sums of columns G and H name their rows absolutely.
TemplateSlotRow(n) ==
    Row(n,
        << Cell(colB, n, "s", <<>>, <<>>, <<n>>, <<>>),
           Cell(colC, n, "", <<>>, <<>>, <<20>>, <<>>),
           Cell(colG, n, "",
                << Formula("SUM(_:_)", << Rel(colH, n), Rel(colJ, n) >>) >>,
                <<>>, <<0>>, <<>>),
           Cell(colK, n, "", <<>>, <<>>, <<8>>, <<>>) >>,
        n)

TemplateColSum(c, n, first, last, absTotals) ==
    Cell(c, n, "",
         << Formula("SUM(_:_)",
                    << Ref(FALSE, c, absTotals, first), Ref(FALSE, c, absTotals, last) >>) >>,
         <<>>, <<0>>, <<>>)

TemplateSectionRows(company) ==
    LET base  == COMPANY_ROW_SLOTS[company]
        first == base[1]
        last  == base[Len(base)]
        total == last + 1
        ColSum(c) == TemplateColSum(c, total, first, last, c \in {colG, colH})
    IN  [i \in 1..Len(base) |-> TemplateSlotRow(base[i])]
        \o
        << Row(total,
               << Cell(colB, total, "s", <<>>, <<>>, <<0>>, <<>>),
                  ColSum(colD), ColSum(colE), ColSum(colF), ColSum(colG),
                  ColSum(colH), ColSum(colK) >>,
               total),
           Row(total + 2,
               << Cell(colE, total + 2, "",
                       << Formula("_+_", << Rel(colE, total), Rel(colG, total) >>) >>,
                       <<>>, <<0>>, <<>>) >>,
               total + 2),
           Row(total + 3,
               << Cell(colE, total + 3, "",
                       << Formula("_+_", << Rel(colG, total + 2), Rel(colQ, total + 2) >>) >>,
                       <<>>, <<0>>, <<>>) >>,
               total + 3) >>

Template ==
    [rows |->
        Flatten([c \in 1..Len(Companies) |-> TemplateSectionRows(c)])
        \o
        << Row(91, << Cell(colF, 91, "",
                           << Formula("_+_+_+_",
                                      << Rel(colF, 26), Rel(colF, 40),
                                         Rel(colF, 57), Rel(colF, 86) >>) >>,
                           <<>>, <<0>>, <<>>) >>, 91),
           Row(93, << Cell(colC, 93, "",
                           << Formula("_-_", << Rel(colK, 59), Rel(colM, 28) >>) >>,
                           <<>>, <<0>>, <<>>) >>, 93),
           Row(101, << Cell(colB, 101, "str",
                            << Formula("IFS(_=0,\"\")", << Rel(colC, 93) >>) >>,
                            <<>>, <<0>>, <<>>),
                       Cell(colF, 101, "",
                            << Formula("_+_", << Rel(colG, 88), Rel(colG, 59) >>) >>,
                            <<>>, <<0>>, <<>>) >>, 101) >>,
     merges |-> << << Rel(colA, 1), Rel(colQ, 2) >>, << Rel(colB, 101), Rel(colE, 101) >> >>,
     dim    |-> << Rel(colA, 1), Rel(colQ, 110) >>]

\* The roster sizes tried for a company: none, the capacity of its section,
\* and up to MaxOverflow more.
RosterSizes(company) ==
    {0} \cup {Len(COMPANY_ROW_SLOTS[company]) + k : k \in 0..MaxOverflow}

Init ==
    /\ sheet = Template
    /\ prev = sheet
    /\ lastOp = NoOp
    /\ nOps = 0
    /\ pc = "insert"
    /\ cur = 1
    /\ counts \in {f \in [1..Len(Companies) -> 0..(22 + MaxOverflow)] :
                      \A c \in 1..Len(Companies) : f[c] \in RosterSizes(c)}
    /\ insertions = <<>>
    /\ company_slots = <<>>
    /\ writes = 0
    /\ reimbursement_row = 101
    /\ employee_rows = <<>>
    /\ MatchIdle
    /\ LaterIdle

\* One iteration of the slot loop of build_employee_rows_from_roster.
InsertSection ==
    /\ pc = "insert"
    /\ LET res == insert_overflow(sheet, COMPANY_ROW_SLOTS[cur], insertions, counts[cur])
       IN  /\ sheet' = res.sheet
           /\ insertions' = res.ins
           /\ company_slots' = Append(company_slots, res.slots)
           /\ lastOp' = [op |-> "section", start_row |-> res.insert_at,
                         delta |-> res.overflow, src |-> 0, tgt |-> cur]
    /\ prev' = sheet
    /\ pc' = step_after("insert", cur).pc
    /\ cur' = step_after("insert", cur).cur
    /\ UNCHANGED <<nOps, counts, writes, reimbursement_row, employee_rows, matchVars, laterVars>>

\* The call refresh_company_summary_formulas(sheet_data, company_slots).
Refresh ==
    /\ pc = "refresh"
    /\ sheet' = [sheet EXCEPT
                    !.rows = apply_writes(sheet.rows,
                                          refresh_company_summary_formulas(company_slots))]
    /\ reimbursement_row' = refresh_reimbursement_row(company_slots)
    /\ writes' = writes + Len(refresh_company_summary_formulas(company_slots))
    /\ lastOp' = [NoOp EXCEPT !.op = "refresh"]
    /\ prev' = sheet
    /\ pc' = step_after("refresh", cur).pc
    /\ cur' = step_after("refresh", cur).cur
    /\ UNCHANGED <<nOps, counts, insertions, company_slots, employee_rows, matchVars, laterVars>>

\* One iteration of the placement loop of build_employee_rows_from_roster.
PlaceSection ==
    /\ pc = "place"
    /\ sheet' = [sheet EXCEPT
                    !.rows = place_company(sheet.rows, cur, company_slots[cur],
                                           counts[cur])]
    /\ writes' = writes + place_company_calls(cur, company_slots[cur], counts[cur])
    /\ employee_rows' = employee_rows
                        \o placed_entries(cur, company_slots[cur], counts[cur])
    /\ lastOp' = [NoOp EXCEPT !.op = "place", !.tgt = cur]
    /\ prev' = sheet
    /\ pc' = step_after("place", cur).pc
    /\ cur' = step_after("place", cur).cur
    /\ UNCHANGED <<nOps, counts, insertions, company_slots, reimbursement_row, matchVars, laterVars>>

\* The employee loop of fill_workbook: the hour values of every employee row.
FillHours ==
    /\ pc = "hours"
    /\ sheet' = [sheet EXCEPT !.rows = fill_hours(sheet.rows, employee_rows)]
    /\ writes' = writes + 3 * Len(employee_rows)
    /\ lastOp' = [NoOp EXCEPT !.op = "hours"]
    /\ prev' = sheet
    /\ pc' = step_after("hours", cur).pc
    /\ cur' = step_after("hours", cur).cur
    /\ UNCHANGED <<nOps, counts, insertions, company_slots, reimbursement_row,
                   employee_rows, matchVars, laterVars>>

\* The status formula of fill_workbook, written at reimbursement_row.
WriteStatus ==
    /\ pc = "status"
    /\ LET due_row == reimbursement_row - 8
       IN  sheet' = [sheet EXCEPT
                        !.rows = set_formula_string_cell(sheet.rows, reimbursement_row, colB,
                                                         reimbursement_status_formula(due_row))]
    /\ writes' = writes + 1
    /\ lastOp' = [NoOp EXCEPT !.op = "status"]
    /\ prev' = sheet
    /\ pc' = step_after("status", cur).pc
    /\ cur' = step_after("status", cur).cur
    /\ UNCHANGED <<nOps, counts, insertions, company_slots, reimbursement_row,
                   employee_rows, matchVars, laterVars>>

Next == InsertSection \/ Refresh \/ PlaceSection \/ FillHours \/ WriteStatus

Spec == Init /\ [][Next]_vars

(***************************************************************************)
(* Reading the layout of a filled sheet                                    *)
(***************************************************************************)
\* The number of rows by which the roster of a company exceeds its section.
Overflow(c) ==
    IF counts[c] > Len(COMPANY_ROW_SLOTS[c])
    THEN counts[c] - Len(COMPANY_ROW_SLOTS[c])
    ELSE 0

\* The sum of the overflows of the sections before section c.
EarlierOverflow(c) == SumSeq([d \in 1..(c - 1) |-> Overflow(d)])

\* The template slots of section c moved down by the earlier overflows.
MovedSlots(c) ==
    [i \in 1..Len(COMPANY_ROW_SLOTS[c]) |-> COMPANY_ROW_SLOTS[c][i] + EarlierOverflow(c)]

\* The template rows below the slots of section c: total and amount row.
TemplateTotalRow(c) == COMPANY_ROW_SLOTS[c][Len(COMPANY_ROW_SLOTS[c])] + 1

TemplateAmountRow(c) == COMPANY_ROW_SLOTS[c][Len(COMPANY_ROW_SLOTS[c])] + 3

\* The current number of the row element that had number id in the template.
RowOfId(id) ==
    LET i == CHOOSE i \in 1..Len(sheet.rows) : sheet.rows[i].id = id
    IN  sheet.rows[i].r

\* The formula of the cell column + row_number of the sheet, as a sequence.
FormulaAt(row_number, column) ==
    LET r == row_index(sheet.rows, row_number)
    IN  IF r = 0 THEN <<>>
        ELSE LET i == cell_index(sheet.rows[r].cells, column, row_number)
             IN  IF i = 0 THEN <<>> ELSE sheet.rows[r].cells[i].f

\* row is a copy of template made for row number t: same cells at row t,
\* relative rows of formulas moved by t - template.r, no cached value.
IsCloneOf(row, template, t) ==
    /\ row.r = t
    /\ Len(row.cells) = Len(template.cells)
    /\ \A j \in 1..Len(template.cells) :
          LET c == row.cells[j]
              o == template.cells[j]
          IN  /\ c.col = o.col
              /\ c.row = t
              /\ c.t = o.t
              /\ c.is = o.is
              /\ IF o.f = <<>>
                 THEN c.f = <<>> /\ c.v = o.v
                 ELSE /\ c.f # <<>>
                      /\ c.v = <<>>
                      /\ c.f[1].fn = o.f[1].fn
                      /\ Len(c.f[1].refs) = Len(o.f[1].refs)
                      /\ \A k \in 1..Len(o.f[1].refs) :
                            /\ c.f[1].refs[k].col = o.f[1].refs[k].col
                            /\ c.f[1].refs[k].row =
                                  IF o.f[1].refs[k].rowAbs
                                  THEN o.f[1].refs[k].row
                                  ELSE o.f[1].refs[k].row + (t - template.r)

(***************************************************************************)
(* C4: in build_employee_rows_from_roster a company with n roster entries  *)
(* and c slots, n > c, gets exactly n - c rows inserted right after its    *)
(* last slot row (every row below moves down by n - c), each new row is a  *)
(* clone of the last slot row, and the slot list is extended by the new    *)
(* row numbers before any entry is placed; a company with n <= c causes no *)
(* insertion and no shift.                                                 *)
(***************************************************************************)
C4_OverflowInsertion ==
    lastOp.op = "section" =>
        LET c    == lastOp.tgt
            base == MovedSlots(c)
            last == base[Len(base)]
            k    == counts[c] - Len(base)
            p    == row_index(prev.rows, last)
        IN  /\ writes = 0
            /\ employee_rows = <<>>
            /\ Len(company_slots) = c
            /\ IF k > 0
               THEN /\ p # 0
                    /\ Len(sheet.rows) = Len(prev.rows) + k
                    /\ \A i \in 1..p :
                          /\ sheet.rows[i].r = prev.rows[i].r
                          /\ sheet.rows[i].id = prev.rows[i].id
                    /\ \A i \in (p + 1)..Len(prev.rows) :
                          /\ sheet.rows[i + k].r = prev.rows[i].r + k
                          /\ sheet.rows[i + k].id = prev.rows[i].id
                    /\ \A j \in 1..k :
                          /\ sheet.rows[p + j].id = 0
                          /\ IsCloneOf(sheet.rows[p + j], sheet.rows[p], last + j)
                    /\ company_slots[c] = base \o [j \in 1..k |-> last + j]
               ELSE /\ sheet = prev
                    /\ company_slots[c] = base

\* A later section overflows after an earlier one did.
C4_Witness ==
    /\ lastOp.op = "section"
    /\ lastOp.delta > 0
    /\ lastOp.tgt > 1
    /\ Len(insertions) >= 2
    /\ Len(sheet.rows) = Len(prev.rows) + lastOp.delta

(***************************************************************************)
(* C5: after overflow insertion into a section, every column sum and       *)
(* weighted sum of the output sheet that ranges over the section's         *)
(* employee rows (regenerated by refresh_company_summary_formulas or       *)
(* template-authored in the total row and only carried through the row     *)
(* shift) ends at the section's last row, inserted rows included.  This    *)
(* is violated: the template's own column sums keep the template's range.  *)
(***************************************************************************)
RangeFormulas ==
    {"SUM(_:_)"} \cup
    {"SUMPRODUCT(_:_,_:_)*" \o COMPANY_BURDEN_MULTIPLIER[c] : c \in 1..Len(Companies)}

\* The k-th and (k+1)-th reference of formula f are the ends of a column range.
IsColumnRange(f, k) ==
    /\ f.fn \in RangeFormulas
    /\ k \in {1, 3}
    /\ k + 1 <= Len(f.refs)
    /\ f.refs[k].col = f.refs[k + 1].col

C5_SumsCoverEnlargedSection ==
    pc = "done" =>
        \A c \in 1..Len(Companies) :
            Overflow(c) > 0 =>
                \A i \in 1..Len(sheet.rows) :
                    \A j \in 1..Len(sheet.rows[i].cells) :
                        LET cell == sheet.rows[i].cells[j]
                        IN  cell.f # <<>> =>
                               \A k \in 1..Len(cell.f[1].refs) :
                                   (/\ IsColumnRange(cell.f[1], k)
                                    /\ cell.f[1].refs[k].row = MinOf(company_slots[c]))
                                   => cell.f[1].refs[k + 1].row = MaxOf(company_slots[c])

(***************************************************************************)
(* C6: for every combination of overflows the rows that the formula        *)
(* builder and fill_workbook write to and reference (total row, amount     *)
(* row, overtime row, net-due row, reimbursement row and the row named by  *)
(* the status formula) are the rows to which the template rows were moved  *)
(* by the insertions, and the slots of a later section are the template's  *)
(* slots moved by the sum of the earlier overflows.                        *)
(***************************************************************************)
C6_RowsFollowInsertions ==
    pc = "done" =>
        /\ \A c \in 1..Len(Companies) :
              LET base == COMPANY_ROW_SLOTS[c]
                  sec  == section_rows(company_slots[c])
              IN  /\ \A i \in 1..Len(base) :
                        /\ company_slots[c][i] = MovedSlots(c)[i]
                        /\ company_slots[c][i] = RowOfId(base[i])
                  /\ sec.total_row = RowOfId(TemplateTotalRow(c))
                  /\ sec.total_row = map_row_with_insertions(TemplateTotalRow(c), insertions)
                  /\ sec.amount_row = RowOfId(TemplateAmountRow(c))
                  /\ sec.amount_row = map_row_with_insertions(TemplateAmountRow(c), insertions)
                  /\ FormulaAt(RowOfId(TemplateTotalRow(c)), colD) =
                        << Formula("SUM(_:_)",
                                   << Rel(colD, sec.start_row), Rel(colD, sec.end_row) >>) >>
                  /\ FormulaAt(RowOfId(TemplateAmountRow(c)), colE) =
                        << Formula("_+_",
                                   << Rel(colE, RowOfId(TemplateTotalRow(c))),
                                      Rel(colG, RowOfId(TemplateTotalRow(c))) >>) >>
        /\ FormulaAt(RowOfId(91), colF) =
              << Formula("_+_+_+_",
                         << Rel(colF, RowOfId(26)), Rel(colF, RowOfId(40)),
                            Rel(colF, RowOfId(57)), Rel(colF, RowOfId(86)) >>) >>
        /\ FormulaAt(RowOfId(93), colC) =
              << Formula("_+_-_-_-_-_",
                         << Rel(colK, RowOfId(59)), Rel(colH, RowOfId(59)),
                            Rel(colM, RowOfId(28)), Rel(colI, RowOfId(28)),
                            Rel(colM, RowOfId(42)), Rel(colI, RowOfId(42)) >>) >>
        /\ FormulaAt(RowOfId(101), colF) =
              << Formula("_+_+_+_",
                         << Rel(colG, RowOfId(88)), Rel(colG, RowOfId(59)),
                            Rel(colG, RowOfId(42)), Rel(colG, RowOfId(28)) >>) >>
        /\ reimbursement_row = RowOfId(101)
        /\ reimbursement_row = map_row_with_insertions(101, insertions)
        /\ FormulaAt(RowOfId(101), colB) = << reimbursement_status_formula(RowOfId(93)) >>

\* A finished fill in which at least three sections overflowed.
C6_Witness ==
    /\ pc = "done"
    /\ Len(insertions) >= 3
    /\ reimbursement_row > 101
    /\ company_slots[4][1] > COMPANY_ROW_SLOTS[4][1]

(***************************************************************************)
(* C7: in a roster-driven fill no formula and no value is written by the   *)
(* formula builder or the value writer until the row insertions of all     *)
(* four company sections are done.                                         *)
(***************************************************************************)
C7_WritesAfterAllInsertions ==
    (pc = "insert" \/ Len(company_slots) < Len(Companies)) => writes = 0

\* A finished fill that inserted rows in two sections and then wrote.
C7_Witness ==
    /\ pc = "done"
    /\ writes > 0
    /\ Len(insertions) >= 2

(***************************************************************************)
(* Identity resolution: normalize_name, SequenceMatcher.ratio, match_names *)
(*                                                                         *)
(* A name is the sequence of its characters; "A_acute" is the character    *)
(* U+00C1, which NFKD decomposes into "A" and a combining accent.          *)
(***************************************************************************)
LowerLetters == << "a", "b", "c", "d", "e", "f", "g", "h", "i", "j", "k", "l", "m",
                   "n", "o", "p", "q", "r", "s", "t", "u", "v", "w", "x", "y", "z" >>

IsUpper(ch) == \E i \in 1..26 : Letters[i] = ch

IsLower(ch) == \E i \in 1..26 : LowerLetters[i] = ch

\* unicodedata.normalize("NFKD", ..).encode("ascii", "ignore"): the accent
\* is dropped, the base letter stays.
ascii_fold(ch) == IF ch = "A_acute" THEN "A" ELSE ch

\* str.lower on one character
lower(ch) == IF IsUpper(ch) THEN LowerLetters[LetterValue(ch)] ELSE ch

\* re.sub(r"[^a-z0-9 ]+", " ", text) on one character
clean(ch) == IF IsLower(ch) \/ ch = " " THEN ch ELSE " "

\* text.split(): the runs of non-space characters from position i on; word
\* is the run read so far.
RECURSIVE split_from(_, _, _)
split_from(text, i, word) ==
    IF i > Len(text)
    THEN IF word = <<>> THEN <<>> ELSE <<word>>
    ELSE IF text[i] = " "
         THEN (IF word = <<>> THEN <<>> ELSE <<word>>) \o split_from(text, i + 1, <<>>)
         ELSE split_from(text, i + 1, Append(word, text[i]))

split(text) == split_from(text, 1, <<>>)

\* " ".join(tokens)
RECURSIVE join(_)
join(tokens) ==
    IF tokens = <<>> THEN <<>>
    ELSE IF Len(tokens) = 1 THEN tokens[1]
    ELSE tokens[1] \o <<" ">> \o join(Tail(tokens))

normalize_name(name) ==
    join(split(MapSeq(name, LAMBDA ch : clean(lower(ascii_fold(ch))))))

name_first_last(normalized_name) ==
    LET tokens == split(normalized_name)
    IN  IF tokens = <<>> THEN << <<>>, <<>> >>
        ELSE << tokens[1], tokens[Len(tokens)] >>

\* Length of the common run of a from i and b from j inside a[..ahi-1], b[..bhi-1].
RECURSIVE common_run(_, _, _, _, _, _)
common_run(a, b, i, j, ahi, bhi) ==
    IF i < ahi /\ j < bhi /\ a[i] = b[j]
    THEN 1 + common_run(a, b, i + 1, j + 1, ahi, bhi)
    ELSE 0

\* The table of common_run over a[alo..ahi-1] x b[blo..bhi-1].
run_table(a, b, alo, ahi, blo, bhi) ==
    [i \in alo..(ahi - 1) |-> [j \in blo..(bhi - 1) |-> common_run(a, b, i, j, ahi, bhi)]]

\* The length of the longest run of the table, 0 for an empty table.
longest_run(run) ==
    LET lens == {run[i][j] : i \in DOMAIN run, j \in UNION {DOMAIN run[x] : x \in DOMAIN run}}
                \cup {0}
    IN  CHOOSE m \in lens : \A n \in lens : n <= m

\* The first row of the table with a run of length k.
first_in_a(run, k) ==
    CHOOSE x \in DOMAIN run :
        /\ \E y \in DOMAIN run[x] : run[x][y] = k
        /\ \A w \in DOMAIN run : w < x => \A y \in DOMAIN run[w] : run[w][y] # k

\* The first column of row i of the table with a run of length k.
first_in_b(run, i, k) ==
    CHOOSE y \in DOMAIN run[i] :
        /\ run[i][y] = k
        /\ \A z \in DOMAIN run[i] : z < y => run[i][z] # k

longest_block(run, alo, blo, k) ==
    IF k = 0
    THEN [i |-> alo, j |-> blo, k |-> 0]
    ELSE [i |-> first_in_a(run, k), j |-> first_in_b(run, first_in_a(run, k), k), k |-> k]

\* SequenceMatcher.find_longest_match without junk: the longest block
\* a[i..i+k-1] = b[j..j+k-1] in a[alo..ahi-1], b[blo..bhi-1], the one that
\* starts earliest in a and, among those, earliest in b.
find_longest_match_in(run, alo, blo) == longest_block(run, alo, blo, longest_run(run))

find_longest_match(a, b, alo, ahi, blo, bhi) ==
    find_longest_match_in(run_table(a, b, alo, ahi, blo, bhi), alo, blo)

\* The number of matched characters of get_matching_blocks: the longest
\* block m, then the same to its left and to its right.
RECURSIVE matches(_, _, _, _, _, _)
RECURSIVE matches_around(_, _, _, _, _, _, _)
matches_around(a, b, alo, ahi, blo, bhi, m) ==
    IF m.k = 0
    THEN 0
    ELSE m.k
         + (IF alo < m.i /\ blo < m.j
            THEN matches(a, b, alo, m.i, blo, m.j) ELSE 0)
         + (IF m.i + m.k < ahi /\ m.j + m.k < bhi
            THEN matches(a, b, m.i + m.k, ahi, m.j + m.k, bhi) ELSE 0)

matches(a, b, alo, ahi, blo, bhi) ==
    matches_around(a, b, alo, ahi, blo, bhi, find_longest_match(a, b, alo, ahi, blo, bhi))

\* A score is the fraction num / den.
Frac(num, den) == [num |-> num, den |-> den]

\* SequenceMatcher(None, a, b).ratio() = 2.0 * matches / (len(a) + len(b))
ratio(a, b) ==
    IF Len(a) + Len(b) = 0
    THEN Frac(1, 1)
    ELSE Frac(2 * matches(a, b, 1, Len(a) + 1, 1, Len(b) + 1), Len(a) + Len(b))

\* score += 0.08, score += 0.05: bonus hundredths added to the ratio r.
add_bonus(r, bonus) == Frac(100 * r.num + bonus * r.den, 100 * r.den)

\* The bonus of a candidate with first and last token w for a source with
\* first and last token s, in hundredths.
token_bonus(s, w) ==
    (IF s[2] # <<>> /\ s[2] = w[2] THEN 8 ELSE 0)
    + (IF s[1] # <<>> /\ s[1] = w[1] THEN 5 ELSE 0)

\* The score of a candidate in the fuzzy pass: ratio, + 0.08 for equal last
\* tokens, + 0.05 for equal first tokens.
fuzzy_score(normalized_source, normalized_workbook) ==
    add_bonus(ratio(normalized_source, normalized_workbook),
              token_bonus(name_first_last(normalized_source),
                          name_first_last(normalized_workbook)))

\* x >= y, x > y for fractions with positive denominators
FracGE(x, y) == x.num * y.den >= y.num * x.den

FracGT(x, y) == x.num * y.den > y.num * x.den

\* x - y
FracSub(x, y) == Frac(x.num * y.den - y.num * x.den, x.den * y.den)

MinQuality == Frac(78, 100)

MinSeparation == Frac(3, 100)


\* The candidates with the normalized name of the source that are not claimed.
exact_matches_any(names, used, normalized_source) ==
    SelectSeq(names, LAMBDA candidate : normalize_name(candidate) = normalized_source)

exact_matches(names, used, normalized_source) ==
    SelectSeq(names, LAMBDA candidate :
                  /\ normalize_name(candidate) = normalized_source
                  /\ candidate \notin used)

\* The unclaimed candidates with the first and last token of the source.
first_last_matches(names, used, source_key) ==
    SelectSeq(names, LAMBDA candidate :
                  /\ name_first_last(normalize_name(candidate)) = source_key
                  /\ candidate \notin used)

\* scored: score and name of every unclaimed candidate, in list order.
scored_candidates(names, used, normalized_source) ==
    MapSeq(SelectSeq(names, LAMBDA workbook_name : workbook_name \notin used),
           LAMBDA workbook_name :
               [score |-> fuzzy_score(normalized_source, normalize_name(workbook_name)),
                name  |-> workbook_name])

\* Index of scored[0] after scored.sort(reverse=True): an entry no other
\* entry scores above (entries of equal score are ordered by name, which
\* does not matter: such a best entry is never accepted).
best_index(scored) ==
    CHOOSE i \in 1..Len(scored) :
        \A j \in 1..Len(scored) : FracGE(scored[i].score, scored[j].score)

\* best_score = scored[0][0]
best_score(scored) == scored[best_index(scored)].score

\* The highest score of the entries of scored other than entry b.
best_score_but(scored, b) ==
    scored[CHOOSE x \in (1..Len(scored)) \ {b} :
               \A y \in (1..Len(scored)) \ {b} :
                   FracGE(scored[x].score, scored[y].score)].score

\* scored[1][0] if len(scored) > 1 else 0.0
second_score(scored) ==
    IF Len(scored) > 1
    THEN best_score_but(scored, best_index(scored))
    ELSE Frac(0, 1)

\* x >= y in floating point: certain when x > y; when x and y are equal as
\* fractions the rounding of the sums decides, which is the value ties_pass.
FloatGE(x, y, ties_pass) ==
    FracGT(x, y) \/ (x.num * y.den = y.num * x.den /\ ties_pass)

fuzzy_accepts_quality_only(best, second, ties_pass) ==
    FloatGE(best, MinQuality, ties_pass)

\* best_score >= 0.78 and (best_score - second_score >= 0.03)
fuzzy_accepts(best, second, ties_pass) ==
    /\ FloatGE(best, MinQuality, ties_pass)
    /\ FloatGE(FracSub(best, second), MinSeparation, ties_pass)

\* The fuzzy pass on the scored candidates: the outcome, for one rounding
\* of the comparisons.
fuzzy_choice(scored, ties_pass) ==
    IF scored # <<>> /\ fuzzy_accepts(best_score(scored), second_score(scored), ties_pass)
    THEN [pass |-> "fuzzy", chosen |-> <<scored[best_index(scored)].name>>]
    ELSE [pass |-> "fuzzy", chosen |-> <<>>]

\* The outcomes of the fuzzy pass: one, unless a comparison is on its threshold.
fuzzy_choices(scored) == {fuzzy_choice(scored, ties_pass) : ties_pass \in BOOLEAN}

\* The first/last pass and, when it does not settle the source, the fuzzy one.
first_last_choice(names, used, normalized_source, fl) ==
    IF Len(fl) = 1
    THEN {[pass |-> "first_last", chosen |-> <<fl[1]>>]}
    ELSE fuzzy_choices(scored_candidates(names, used, normalized_source))

\* The exact pass and, when it does not settle the source, the later ones.
exact_choice(names, used, normalized_source, exact) ==
    IF Len(exact) = 1
    THEN {[pass |-> "exact", chosen |-> <<exact[1]>>]}
    ELSE first_last_choice(names, used, normalized_source,
                           first_last_matches(names, used,
                                              name_first_last(normalized_source)))

choose_with(names, used, normalized_source) ==
    exact_choice(names, used, normalized_source,
                 exact_matches(names, used, normalized_source))

\* The body of the loop of match_names for one source name: the outcomes it
\* can have, each the pass that settled the source and the candidate chosen
\* (none: the empty sequence).
choose_candidate(names, used, source_name) ==
    choose_with(names, used, normalize_name(source_name))

unmatched_after_dropping(unmatched, source_name, chosen) == unmatched

\* unmatched_sources after the loop body: the source is appended when no
\* candidate was chosen.
unmatched_after(unmatched, source_name, chosen) ==
    IF chosen = <<>> THEN Append(unmatched, source_name) ELSE unmatched

\* source_to_workbook[source_name] = chosen, on a dictionary kept as the
\* sequence of its items in insertion order.
dict_set(items, key, value) ==
    IF \E i \in 1..Len(items) : items[i].source = key
    THEN [i \in 1..Len(items) |->
             IF items[i].source = key THEN [source |-> key, workbook |-> value]
                                      ELSE items[i]]
    ELSE Append(items, [source |-> key, workbook |-> value])

(***************************************************************************)
(* SpecMatch: match_names on lists of candidates and queries               *)
(***************************************************************************)
MaxCandidates == 3
MaxQueries == 2

AnnLee    == << "A", "n", "n", " ", "L", "e", "e" >>
annLee    == << "a", "n", "n", " ", "l", "e", "e" >>
AnaLee    == << "A", "n", "a", " ", "L", "e", "e" >>
AlRay     == << "A", "l", " ", "R", "a", "y" >>
XbC       == << "X", "b", " ", "C" >>
AbX       == << "A", "b", " ", "X" >>
AnnLeeDot == << "A_acute", "N", "N", " ", " ", "L", "E", "E", "." >>
AnnMLee   == << "A", "n", "n", " ", "M", " ", "L", "e", "e" >>
AnLee     == << "A", "n", " ", "L", "e", "e" >>
AlRoy     == << "A", "l", " ", "R", "o", "y" >>
BoKim     == << "B", "o", " ", "K", "i", "m" >>
AbC       == << "A", "b", " ", "C" >>

\* Workbook names: two spellings of one name, a near namesake, an unrelated
\* name and two names that tie around one query.
CandidatePool == << AnnLee, annLee, AnaLee, AlRay, XbC, AbX >>

\* Source names: exact, exact after normalization, first/last, fuzzy with
\* one or two near candidates, fuzzy accept, no match, separation of 0.03.
QueryPool == << AnnLee, AnnLeeDot, AnnMLee, AnLee, AlRoy, BoKim, AbC >>

PoolSet(pool) == {pool[i] : i \in 1..Len(pool)}

CandidateLists ==
    {SelectSeq(CandidatePool, LAMBDA c : c \in S) :
        S \in {T \in SUBSET PoolSet(CandidatePool) : Cardinality(T) <= MaxCandidates}}

QueryLists ==
    UNION {{q \in [1..n -> PoolSet(QueryPool)] :
               \A i, j \in 1..n : i # j => q[i] # q[j]} : n \in 1..MaxQueries}

InitMatch ==
    /\ workbook_names \in CandidateLists
    /\ source_names \in QueryLists
    /\ qi = 1
    /\ used_workbook_names = {}
    /\ source_to_workbook = <<>>
    /\ unmatched_sources = <<>>
    /\ passOf = <<>>
    /\ ShiftIdle
    /\ FillIdle
    /\ LaterIdle

\* The assignments of one iteration, res being the outcome of its passes.
record_choice(source_name, res) ==
    /\ unmatched_sources' = unmatched_after(unmatched_sources, source_name, res.chosen)
    /\ source_to_workbook' =
           IF res.chosen = <<>>
           THEN source_to_workbook
           ELSE dict_set(source_to_workbook, source_name, res.chosen[1])
    /\ used_workbook_names' =
           IF res.chosen = <<>>
           THEN used_workbook_names
           ELSE used_workbook_names \cup {res.chosen[1]}
    /\ passOf' = Append(passOf, [pass |-> res.pass, chosen |-> res.chosen,
                                 used_before |-> used_workbook_names])

\* One iteration of the loop of match_names.
MatchOne ==
    /\ qi <= Len(source_names)
    /\ \E res \in choose_candidate(workbook_names, used_workbook_names, source_names[qi]) :
          record_choice(source_names[qi], res)
    /\ qi' = qi + 1
    /\ UNCHANGED <<workbook_names, source_names, shiftVars, fillVars, laterVars>>

NextMatch == MatchOne

SpecMatch == InitMatch /\ [][NextMatch]_vars

(***************************************************************************)
(* Reading the result of match_names                                       *)
(***************************************************************************)
IsKey(source_name) ==
    \E i \in 1..Len(source_to_workbook) : source_to_workbook[i].source = source_name

IsUnmatched(source_name) ==
    \E i \in 1..Len(unmatched_sources) : unmatched_sources[i] = source_name

\* The candidates claimed by the first k queries.
ClaimedBy(k) ==
    {passOf[j].chosen[1] : j \in {x \in 1..k : passOf[x].chosen # <<>>}}

\* C8: match_names never maps two different queries to the same candidate:
\* the mapping is injective, the candidates in use are those the mapping
\* names, and no query is mapped to a candidate that an earlier query of the
\* input claimed.
C8_MappingInjective ==
    /\ \A i, j \in 1..Len(source_to_workbook) :
           i # j => source_to_workbook[i].workbook # source_to_workbook[j].workbook
    /\ used_workbook_names =
           {source_to_workbook[i].workbook : i \in 1..Len(source_to_workbook)}
    /\ \A k \in 1..Len(passOf) :
           /\ passOf[k].used_before = ClaimedBy(k - 1)
           /\ passOf[k].chosen # <<>> => passOf[k].chosen[1] \notin ClaimedBy(k - 1)

\* A later query whose only candidate of equal normalized name was claimed
\* by an earlier query.
C8_Witness ==
    /\ qi > Len(source_names)
    /\ \E k \in 2..Len(passOf) :
           /\ passOf[k - 1].chosen # <<>>
           /\ exact_matches_any(workbook_names, {}, normalize_name(source_names[k]))
                  = passOf[k - 1].chosen
           /\ passOf[k].chosen # passOf[k - 1].chosen

\* C9: the mapping and the unmatched list partition the queries handled so
\* far: each is a key of the mapping or an element of the unmatched list,
\* never both, never neither; nothing else is in either; the unmatched list
\* is the unmapped queries in input order.
C9_QueriesPartitioned ==
    /\ \A i \in 1..(qi - 1) :
           IsKey(source_names[i]) # IsUnmatched(source_names[i])
    /\ \A i \in 1..Len(source_to_workbook) :
           /\ \E k \in 1..(qi - 1) : source_names[k] = source_to_workbook[i].source
           /\ \A j \in 1..Len(source_to_workbook) :
                  i # j => source_to_workbook[i].source # source_to_workbook[j].source
    /\ unmatched_sources =
           SelectSeq(SubSeq(source_names, 1, qi - 1), LAMBDA q : ~IsKey(q))

\* All queries handled, the first one unmatched and a later one mapped.
C9_Witness ==
    /\ qi > Len(source_names)
    /\ Len(source_names) >= 2
    /\ unmatched_sources = <<source_names[1]>>
    /\ IsKey(source_names[Len(source_names)])

\* The candidates available to query k and their scores.
Available(k) == {workbook_names[i] : i \in 1..Len(workbook_names)} \ passOf[k].used_before

Scores(k) ==
    [c \in Available(k) |->
        fuzzy_score(normalize_name(source_names[k]), normalize_name(c))]

\* b scores at least 0.78 and at least 0.03 above every other candidate.
ClearWinner(score, b) ==
    /\ FracGE(score[b], MinQuality)
    /\ \A c \in DOMAIN score \ {b} : FracGE(FracSub(score[b], score[c]), MinSeparation)

\* Two candidates, one of them scoring highest, less than 0.03 apart.
TopTwoClose(score) ==
    \E b \in DOMAIN score :
        /\ \A c \in DOMAIN score : FracGE(score[b], score[c])
        /\ \E c \in DOMAIN score \ {b} :
               ~FracGE(FracSub(score[b], score[c]), MinSeparation)

FuzzyRule(k, score) ==
    /\ passOf[k].chosen # <<>> =>
           /\ passOf[k].chosen[1] \in DOMAIN score
           /\ ClearWinner(score, passOf[k].chosen[1])
    /\ TopTwoClose(score) =>
           /\ passOf[k].chosen = <<>>
           /\ IsUnmatched(source_names[k])
           /\ ~IsKey(source_names[k])

\* C10: a query that the exact and the first/last pass did not resolve is
\* mapped only to the highest-scoring available candidate, and only if that
\* score is >= 0.78 and >= 0.03 above every other available candidate's (so
\* above 0 when it is the only one); when the highest-scoring candidate and
\* another one are less than 0.03 apart the query is unmatched and claims
\* no candidate.
C10_FuzzyAcceptance ==
    \A k \in 1..Len(passOf) :
        passOf[k].pass = "fuzzy" => FuzzyRule(k, Scores(k))

\* One query accepted by the fuzzy pass, and one left unmatched by it whose
\* best candidate scores >= 0.78 but has a rival less than 0.03 below.
FuzzyAmbiguous(score) ==
    TopTwoClose(score) /\ \E b \in DOMAIN score : FracGE(score[b], MinQuality)

C10_Witness ==
    /\ qi > Len(source_names)
    /\ \E k \in 1..Len(passOf) :
           /\ passOf[k].pass = "fuzzy"
           /\ passOf[k].chosen # <<>>
           /\ Cardinality(Available(k)) >= 2
    /\ \E k \in 1..Len(passOf) :
           /\ passOf[k].pass = "fuzzy"
           /\ passOf[k].chosen = <<>>
           /\ FuzzyAmbiguous(Scores(k))

(***************************************************************************)
(* Hours: load_hours_csv and the hour columns of fill_workbook              *)
(*                                                                         *)
(* A CSV field is the sequence of its characters.  An amount of hours is   *)
(* counted in minutes (the value is minutes / 60), which the sums of the   *)
(* loader keep exact.                                                      *)
(***************************************************************************)
\* str.upper on one character
upper(ch) ==
    IF IsLower(ch) THEN Letters[CHOOSE i \in 1..26 : LowerLetters[i] = ch] ELSE ch

\* " ".join(value.strip().split())
normalize_spaces(value) == join(split(value))

\* word in text
contains(text, word) ==
    \E i \in 1..(Len(text) - Len(word) + 1) : SubSeq(text, i, i + Len(word) - 1) = word

WORD_SCANIO == << "S", "C", "A", "N", "I", "O" >>
WORD_SEA == << "S", "E", "A" >>
WORD_AIR == << "A", "I", "R" >>
WORD_FLAT == << "F", "L", "A", "T" >>

\* normalize_company; "None" stands for None.
normalize_company_of(text) ==
    IF text = <<>> THEN "None"
    ELSE IF contains(text, WORD_SCANIO) THEN "scanio"
    ELSE IF contains(text, WORD_SEA) /\ contains(text, WORD_AIR) THEN "sea_and_air"
    ELSE IF contains(text, WORD_FLAT) THEN "flat_price"
    ELSE "None"

normalize_company(company) ==
    normalize_company_of(MapSeq(normalize_spaces(company), upper))

Digits == << "0", "1", "2", "3", "4", "5", "6", "7", "8", "9" >>

\* int(text) for a text of decimal digits, from the left: acc is the value
\* of the digits read so far.
RECURSIVE int_from(_, _, _)
int_from(text, i, acc) ==
    IF i > Len(text) THEN acc
    ELSE int_from(text, i + 1,
                  10 * acc + (CHOOSE d \in 0..9 : Digits[d + 1] = text[i]))

int(text) == int_from(text, 1, 0)

\* The position of the first ":" of text, 0 when there is none.
colon_index(text) ==
    IF \E i \in 1..Len(text) : text[i] = ":"
    THEN CHOOSE i \in 1..Len(text) : text[i] = ":" /\ \A j \in 1..(i - 1) : text[j] # ":"
    ELSE 0

\* The unsigned part of parse_hour_text_to_decimal, in minutes: "h:m" is
\* h + m / 60.0 with an empty part read as 0, a text without ":" is
\* float(text) (whole hours here).
unsigned_minutes(text, colon) ==
    IF colon # 0
    THEN 60 * int(SubSeq(text, 1, colon - 1)) + int(SubSeq(text, colon + 1, Len(text)))
    ELSE 60 * int(text)

signed_minutes(text) ==
    IF text[1] = "-" THEN 0 - unsigned_minutes(Tail(text), colon_index(Tail(text)))
    ELSE IF text[1] = "+" THEN unsigned_minutes(Tail(text), colon_index(Tail(text)))
    ELSE unsigned_minutes(text, colon_index(text))

\* parse_hour_text_to_decimal, in minutes.
parse_hour_text_to_decimal(value) ==
    IF SelectSeq(value, LAMBDA ch : ch # " ") = <<>>
    THEN 0
    ELSE signed_minutes(SelectSeq(value, LAMBDA ch : ch # " "))

Buckets == {"scanio", "sea_and_air", "flat_price"}

\* dict.get(key, 0.0) and d[key] += amount on a dictionary of numbers.
get(d, key) == IF key \in DOMAIN d THEN d[key] ELSE 0

add_to(d, key, amount) ==
    [k \in DOMAIN d \cup {key} |-> IF k = key THEN get(d, key) + amount ELSE d[k]]

\* The index of name among the items of a dictionary kept in insertion order.
item_index(items, name) ==
    IF \E i \in 1..Len(items) : items[i].name = name
    THEN CHOOSE i \in 1..Len(items) : items[i].name = name
    ELSE 0

\* totals[raw_name][bucket] += hours
add_hours(totals, raw_name, bucket, hours) ==
    IF item_index(totals, raw_name) = 0
    THEN Append(totals, [name |-> raw_name, buckets |-> add_to(<<>>, bucket, hours)])
    ELSE [totals EXCEPT ![item_index(totals, raw_name)].buckets =
             add_to(@, bucket, hours)]

\* The body of the reader loop of load_hours_csv for one row: totals and
\* unknown_companies after it.
load_hours_row(totals, unknown, row, raw_name, bucket, company) ==
    IF raw_name = <<>>
    THEN [totals |-> totals, unknown |-> unknown]
    ELSE IF bucket = "None"
    THEN [totals |-> totals,
          unknown |-> IF company # <<>> /\ \A i \in 1..Len(unknown) : unknown[i] # company
                      THEN Append(unknown, company)
                      ELSE unknown]
    ELSE [totals |-> add_hours(totals, raw_name, bucket,
                               parse_hour_text_to_decimal(row.Hours)),
          unknown |-> unknown]

\* The decimal text format_decimal_for_excel writes: sign, whole part and the
\* digits after the point, trailing zeros removed.
Decimal(neg, whole, frac) == [neg |-> neg, whole |-> whole, frac |-> frac]

\* The first n digits after the point of rem / den, and the remainder left.
RECURSIVE fraction_digits(_, _, _)
fraction_digits(rem, den, n) ==
    IF n = 0 THEN <<>>
    ELSE << (10 * rem) \div den >> \o fraction_digits((10 * rem) % den, den, n - 1)

RECURSIVE fraction_rest(_, _, _)
fraction_rest(rem, den, n) ==
    IF n = 0 THEN rem ELSE fraction_rest((10 * rem) % den, den, n - 1)

\* digits + 1 in the last place; a carry out of the first place is digit 10.
RECURSIVE add_one(_)
add_one(digits) ==
    IF digits = <<>> THEN <<>>
    ELSE IF digits[Len(digits)] < 9 \/ Len(digits) = 1
    THEN [digits EXCEPT ![Len(digits)] = @ + 1]
    ELSE Append(add_one(SubSeq(digits, 1, Len(digits) - 1)), 0)

\* rstrip("0")
RECURSIVE rstrip_zeros(_)
rstrip_zeros(digits) ==
    IF digits # <<>> /\ digits[Len(digits)] = 0
    THEN rstrip_zeros(SubSeq(digits, 1, Len(digits) - 1))
    ELSE digits

\* f"{value:.10f}" for value = (whole * den + rem) / den >= 0, then the
\* trailing zeros and point removed.
rounded_decimal(neg, whole, digits, round_up) ==
    IF ~round_up THEN Decimal(neg, whole, rstrip_zeros(digits))
    ELSE IF add_one(digits)[1] = 10
    THEN Decimal(neg, whole + 1, rstrip_zeros(Tail(add_one(digits))))
    ELSE Decimal(neg, whole, rstrip_zeros(add_one(digits)))

\* format_decimal_for_excel of the number num / den.
format_decimal_for_excel(num, den) ==
    IF num = 0
    THEN Decimal(FALSE, 0, <<>>)
    ELSE rounded_decimal(num < 0,
                         (IF num < 0 THEN 0 - num ELSE num) \div den,
                         fraction_digits((IF num < 0 THEN 0 - num ELSE num) % den, den, 10),
                         2 * fraction_rest((IF num < 0 THEN 0 - num ELSE num) % den, den, 10)
                             > den)

\* workbook_to_source.get(workbook_name): the source mapped to the name,
\* as a sequence of at most one source.
workbook_to_source_first(mapping, workbook_name) ==
    IF mapping = <<>> THEN <<>> ELSE << mapping[1].source >>

workbook_to_source(mapping, workbook_name) ==
    IF \E i \in 1..Len(mapping) : mapping[i].workbook = workbook_name
    THEN << mapping[CHOOSE i \in 1..Len(mapping) :
                        /\ mapping[i].workbook = workbook_name
                        /\ \A j \in (i + 1)..Len(mapping) :
                               mapping[j].workbook # workbook_name].source >>
    ELSE <<>>

\* buckets = hours_by_source_name.get(source_name, {}) if source_name else {}
buckets_of(totals, source) ==
    IF source = <<>> \/ source[1] = <<>> \/ item_index(totals, source[1]) = 0
    THEN <<>>
    ELSE totals[item_index(totals, source[1])].buckets

\* The three set_numeric_cell calls of the employee loop for one entry.
entry_hour_writes(entry, buckets) ==
    << NWrite(entry.row_number, colK, format_decimal_for_excel(get(buckets, "scanio"), 60),
              FALSE),
       NWrite(entry.row_number, colM,
              format_decimal_for_excel(get(buckets, "sea_and_air"), 60), FALSE),
       NWrite(entry.row_number, colO,
              format_decimal_for_excel(get(buckets, "flat_price"), 60), FALSE) >>

(***************************************************************************)
(* SpecHours: fill_workbook without tips, from the hours CSV to the hour   *)
(* columns of the employee rows                                            *)
(***************************************************************************)
MaxHourRows == 2

HourRow(name, company, hours) == [Name |-> name, Company |-> company, Hours |-> hours]

\* Rows of the hours CSV: the three companies, a name spelled in a second
\* way, a name that only the fuzzy pass resolves, a name of no employee, an
\* unknown company and a row without a name.
HourRowPool ==
    << HourRow(AnnLee, << "S", "c", "a", "n", "i", "o" >>, << "8" >>),
       HourRow(AnnLee, << "S", "e", "a", " ", "&", " ", "A", "i", "r" >>, << "7", ":", "2", "0" >>),
       HourRow(AnnLeeDot, << "f", "l", "a", "t", " ", "p", "r", "i", "c", "e" >>, << ":", "3", "0" >>),
       HourRow(AlRoy, << " ", "S", "C", "A", "N", "I", "O", " ", " ", "M", "O", "V", "I", "N", "G" >>, << "7", ":", "2", "0" >>),
       HourRow(BoKim, << "S", "c", "a", "n", "i", "o" >>, << "-", "1" >>),
       HourRow(AnnLee, << "A", "c", "m", "e" >>, << "8" >>),
       HourRow(<< " " >>, << "S", "c", "a", "n", "i", "o" >>, << "8" >>) >>

\* The workbook names of the employee rows: distinct names, near namesakes,
\* and one name on two rows.
EmployeeNameLists ==
    { << AnnLee, AlRay >>, << AnnLee, AnaLee, AlRay >>, << AnnLee, AnnLee, AlRay >> }

\* The employee rows of a sheet whose rows 5, 6, .. carry the names.
EmployeeRowsOf(names) ==
    [i \in 1..Len(names) |->
        [row_number |-> 4 + i, workbook_name |-> names[i], home_company |-> 1]]

EmployeeSheet(names) ==
    [rows   |-> [i \in 1..Len(names) |-> TemplateSlotRow(4 + i)],
     merges |-> <<>>,
     dim    |-> << Rel(colA, 1), Rel(colQ, 4 + Len(names)) >>]

InitHours ==
    /\ \E names \in EmployeeNameLists :
          /\ sheet = EmployeeSheet(names)
          /\ employee_rows = EmployeeRowsOf(names)
    /\ prev = sheet
    /\ lastOp = NoOp
    /\ nOps = 0
    /\ pc = "load_hours"
    /\ counts = <<>>
    /\ insertions = <<>>
    /\ company_slots = <<>>
    /\ cur = 1
    /\ writes = 0
    /\ reimbursement_row = 101
    /\ hours_csv \in UNION {[1..n -> {HourRowPool[i] : i \in 1..Len(HourRowPool)}] :
                               n \in 1..MaxHourRows}
    /\ tips_csv = <<>>
    /\ row_i = 1
    /\ format_mode = "None"
    /\ hours_by_source_name = <<>>
    /\ unknown_companies = <<>>
    /\ tip_totals_by_source_name = <<>>
    /\ tip_source_breakdown_by_source_name = <<>>
    /\ unknown_tip_notes = <<>>
    /\ workbook_names = <<>>
    /\ source_names = <<>>
    /\ qi = 1
    /\ used_workbook_names = {}
    /\ source_to_workbook = <<>>
    /\ unmatched_sources = <<>>
    /\ passOf = <<>>
    /\ RestIdle

\* The state of the loader after one row.
loaded_hours(res) ==
    /\ hours_by_source_name' = res.totals
    /\ unknown_companies' = res.unknown

\* One iteration of the reader loop of load_hours_csv.
LoadHoursRow ==
    /\ pc = "load_hours"
    /\ row_i <= Len(hours_csv)
    /\ loaded_hours(load_hours_row(hours_by_source_name, unknown_companies,
                                   hours_csv[row_i],
                                   normalize_spaces(hours_csv[row_i].Name),
                                   normalize_company(hours_csv[row_i].Company),
                                   normalize_spaces(hours_csv[row_i].Company)))
    /\ row_i' = row_i + 1
    /\ UNCHANGED <<shiftVars, fillVars, matchVars, hours_csv, tipVars, restVars>>

\* fill_workbook between the loader and the loop of match_names: the
\* queries are the keys of the totals, the candidates the employee rows.
StartHoursMatch ==
    /\ pc = "load_hours"
    /\ row_i > Len(hours_csv)
    /\ source_names' = [i \in 1..Len(hours_by_source_name) |-> hours_by_source_name[i].name]
    /\ workbook_names' = [i \in 1..Len(employee_rows) |-> employee_rows[i].workbook_name]
    /\ pc' = "match"
    /\ UNCHANGED <<shiftVars, counts, insertions, company_slots, cur, writes,
                   reimbursement_row, employee_rows, qi, used_workbook_names,
                   source_to_workbook, unmatched_sources, passOf, dataVars, restVars>>

\* One iteration of the employee loop of fill_workbook: the hour columns.
WriteEntryHours ==
    /\ pc = "match"
    /\ qi > Len(source_names)
    /\ cur <= Len(employee_rows)
    /\ sheet' = [sheet EXCEPT !.rows =
                    apply_writes(sheet.rows,
                        entry_hour_writes(employee_rows[cur],
                            buckets_of(hours_by_source_name,
                                       workbook_to_source(source_to_workbook,
                                           employee_rows[cur].workbook_name))))]
    /\ prev' = sheet
    /\ lastOp' = [NoOp EXCEPT !.op = "entry", !.tgt = employee_rows[cur].row_number]
    /\ writes' = writes + 3
    /\ cur' = cur + 1
    /\ pc' = IF cur = Len(employee_rows) THEN "filled" ELSE pc
    /\ UNCHANGED <<nOps, counts, insertions, company_slots, reimbursement_row,
                   employee_rows, matchVars, dataVars, restVars>>

NextHours == LoadHoursRow \/ StartHoursMatch \/ MatchOne \/ WriteEntryHours

SpecHours == InitHours /\ [][NextHours]_vars

\* The value text of the cell column + row_number of the sheet, as a sequence.
ValueAt(row_number, column) ==
    LET r == row_index(sheet.rows, row_number)
    IN  IF r = 0 THEN <<>>
        ELSE LET i == cell_index(sheet.rows[r].cells, column, row_number)
             IN  IF i = 0 THEN <<>> ELSE sheet.rows[r].cells[i].v

\* The hour columns of row_number hold the totals of buckets.
HoursWritten(row_number, buckets) ==
    /\ ValueAt(row_number, colK) = << format_decimal_for_excel(get(buckets, "scanio"), 60) >>
    /\ ValueAt(row_number, colM) =
           << format_decimal_for_excel(get(buckets, "sea_and_air"), 60) >>
    /\ ValueAt(row_number, colO) =
           << format_decimal_for_excel(get(buckets, "flat_price"), 60) >>

\* The employee rows that carry a workbook name.
RowsNamed(workbook_name) ==
    {i \in 1..Len(employee_rows) : employee_rows[i].workbook_name = workbook_name}

\* The totals the loader holds for a source name.
TotalsOf(source_name) ==
    hours_by_source_name[CHOOSE k \in 1..Len(hours_by_source_name) :
                             hours_by_source_name[k].name = source_name].buckets

\* C11: when the employee loop is through, for every source name that
\* match_names mapped, columns K, M and O of the row of its workbook name
\* hold the source's totals for scanio, sea_and_air and flat_price (as the
\* decimal text of the total), that row is the only one; every employee row
\* no source is mapped to holds 0 in K, M and O.
C11_HoursInMatchedRow ==
    pc = "filled" =>
        /\ \A m \in 1..Len(source_to_workbook) :
               /\ Cardinality(RowsNamed(source_to_workbook[m].workbook)) = 1
               /\ \A i \in RowsNamed(source_to_workbook[m].workbook) :
                      HoursWritten(employee_rows[i].row_number,
                                   TotalsOf(source_to_workbook[m].source))
        /\ \A i \in 1..Len(employee_rows) :
               (\A m \in 1..Len(source_to_workbook) :
                    source_to_workbook[m].workbook # employee_rows[i].workbook_name)
               => HoursWritten(employee_rows[i].row_number, <<>>)

\* A mapped source with hours in two companies, 7:20 written as
\* 7.3333333333, next to an employee row that no source is mapped to.
C11_Witness ==
    /\ pc = "filled"
    /\ \E m \in 1..Len(source_to_workbook) :
           \E i \in RowsNamed(source_to_workbook[m].workbook) :
               /\ ValueAt(employee_rows[i].row_number, colK) = << Decimal(FALSE, 8, <<>>) >>
               /\ ValueAt(employee_rows[i].row_number, colM) =
                      << Decimal(FALSE, 7, << 3, 3, 3, 3, 3, 3, 3, 3, 3, 3 >>) >>
    /\ \E i \in 1..Len(employee_rows) :
           \A m \in 1..Len(source_to_workbook) :
               source_to_workbook[m].workbook # employee_rows[i].workbook_name

\* The hours, in minutes, that the rows read so far give for a name, and the
\* hours the loader holds for it over all companies.
HoursGiven(raw_name) ==
    SumSeq([i \in 1..(row_i - 1) |->
               IF normalize_spaces(hours_csv[i].Name) = raw_name
               THEN parse_hour_text_to_decimal(hours_csv[i].Hours)
               ELSE 0])

HoursHeld(raw_name) ==
    IF item_index(hours_by_source_name, raw_name) = 0
    THEN 0
    ELSE LET b == hours_by_source_name[item_index(hours_by_source_name, raw_name)].buckets
         IN  get(b, "scanio") + get(b, "sea_and_air") + get(b, "flat_price")

\* An hours row with a name whose company label is not recognized.
UnknownCompanyRow(i) ==
    /\ normalize_spaces(hours_csv[i].Name) # <<>>
    /\ normalize_spaces(hours_csv[i].Company) # <<>>
    /\ normalize_company(hours_csv[i].Company) = "None"

\* C13: an hours row whose company label cannot be classified is recorded
\* in unknown_companies and does not lose its hours: the person's totals
\* hold the hours of all the rows read for the person.  (The code records
\* the label and drops the hours.)
C13_UnknownCompanyKeepsHours ==
    pc \in {"load_hours", "match", "filled"} =>
        \A i \in 1..(row_i - 1) :
            UnknownCompanyRow(i) =>
                /\ \E k \in 1..Len(unknown_companies) :
                       unknown_companies[k] = normalize_spaces(hours_csv[i].Company)
                /\ HoursHeld(normalize_spaces(hours_csv[i].Name))
                       = HoursGiven(normalize_spaces(hours_csv[i].Name))

(***************************************************************************)
(* Tips: load_tips_csv and the commission columns of fill_workbook          *)
(*                                                                         *)
(* An amount of money is counted in cents (the value is cents / 100); the  *)
(* amounts of the CSV have at most two digits after the point, and a text  *)
(* is a number when it is a plain decimal (float() of an exponent, inf or  *)
(* nan is not among the inputs).                                           *)
(***************************************************************************)
IsDigit(ch) == \E d \in 1..10 : Digits[d] = ch

\* The position of the first ch of text, 0 when there is none.
char_index(text, ch) ==
    IF \E i \in 1..Len(text) : text[i] = ch
    THEN CHOOSE i \in 1..Len(text) : text[i] = ch /\ \A j \in 1..(i - 1) : text[j] # ch
    ELSE 0

\* float(text) of an unsigned plain decimal, in cents.
decimal_cents(text, point) ==
    IF point = 0 THEN 100 * int(text)
    ELSE 100 * int(SubSeq(text, 1, point - 1))
             + int(SubSeq(SubSeq(text, point + 1, Len(text)) \o << "0", "0" >>, 1, 2))

\* text is an unsigned plain decimal: digits, at most one point, a digit.
is_decimal(text) ==
    /\ \A i \in 1..Len(text) : IsDigit(text[i]) \/ text[i] = "."
    /\ \E i \in 1..Len(text) : IsDigit(text[i])
    /\ Cardinality({i \in 1..Len(text) : text[i] = "."}) <= 1

\* float(text) of a text without "$" and ",": ok is FALSE for ValueError.
float(text) ==
    IF text[1] \in {"-", "+"}
    THEN IF is_decimal(Tail(text))
         THEN [ok |-> TRUE,
               value |-> (IF text[1] = "-" THEN 0 - 1 ELSE 1)
                             * decimal_cents(Tail(text), char_index(Tail(text), "."))]
         ELSE [ok |-> FALSE, value |-> 0]
    ELSE IF is_decimal(text)
         THEN [ok |-> TRUE, value |-> decimal_cents(text, char_index(text, "."))]
         ELSE [ok |-> FALSE, value |-> 0]

\* parse_number
parse_number_of(text) ==
    IF text = <<>> THEN [ok |-> TRUE, value |-> 0] ELSE float(text)

parse_number(value) ==
    parse_number_of(SelectSeq(normalize_spaces(value), LAMBDA ch : ch \notin {"$", ","}))

\* The end of the run of digits of text that starts at position i.
RECURSIVE digits_end(_, _)
digits_end(text, i) ==
    IF i < Len(text) /\ IsDigit(text[i + 1]) THEN digits_end(text, i + 1) ELSE i

\* The end of the match of \d+(?:\.\d+)? whose digits start at position i.
number_end(text, i) ==
    IF /\ digits_end(text, i) + 2 <= Len(text)
       /\ text[digits_end(text, i) + 1] = "."
       /\ IsDigit(text[digits_end(text, i) + 2])
    THEN digits_end(text, digits_end(text, i) + 2)
    ELSE digits_end(text, i)

\* NOTE_AMOUNT_RE matches at position i: no letter or digit before it, an
\* optional "$", a digit.  The position of the first digit, 0 for no match.
note_amount_at(text, i) ==
    IF i > 1 /\ (IsLower(text[i - 1]) \/ IsUpper(text[i - 1]) \/ IsDigit(text[i - 1]))
    THEN 0
    ELSE IF IsDigit(text[i]) THEN i
    ELSE IF text[i] = "$" /\ i < Len(text) /\ IsDigit(text[i + 1]) THEN i + 1
    ELSE 0

\* sum(float(value) for value in NOTE_AMOUNT_RE.findall(text)) from position
\* i on, in cents, and the number of matches.
RECURSIVE note_amounts(_, _)
note_amounts(text, i) ==
    IF i > Len(text) THEN [n |-> 0, total |-> 0]
    ELSE IF note_amount_at(text, i) = 0 THEN note_amounts(text, i + 1)
    ELSE LET d    == note_amount_at(text, i)
             e    == number_end(text, d)
             rest == note_amounts(text, e + 1)
         IN  [n |-> rest.n + 1,
              total |-> rest.total
                  + decimal_cents(SubSeq(text, d, e), char_index(SubSeq(text, d, e), "."))]

\* parse_tip_amount_from_note on the lower-case note; ok is FALSE for None.
parse_tip_amount_of(text) ==
    IF text = <<>> THEN [ok |-> FALSE, value |-> 0]
    ELSE IF ~ \E keyword \in { << "i", "n", "s", "u" >>, << "i", "n", "s" >>,
                                << "m", "a", "t" >>, << "m", "a", "t", "s" >>, << "@" >> } :
                  contains(text, keyword)
    THEN [ok |-> FALSE, value |-> 0]
    ELSE IF note_amounts(text, 1).n = 0 \/ note_amounts(text, 1).total <= 0
    THEN [ok |-> FALSE, value |-> 0]
    ELSE [ok |-> TRUE, value |-> note_amounts(text, 1).total]

parse_tip_amount_from_note(note) ==
    parse_tip_amount_of(MapSeq(normalize_spaces(note), lower))

\* The loop over the tokens of parse_tip_source_from_note: the source of the
\* first token that names one, "None" when no token does.
RECURSIVE token_source(_)
token_source(tokens) ==
    IF tokens = <<>> THEN "None"
    ELSE IF Head(tokens) \in { << "s", "c" >>, << "s", "c", "a", "n", "i", "o" >> }
    THEN "scanio"
    ELSE IF Head(tokens) = << "s", "a" >> THEN "sea_and_air"
    ELSE IF Head(tokens) = << "f", "p" >> THEN "flat_price"
    ELSE token_source(Tail(tokens))

\* parse_tip_source_from_note on the lower-case note; "None" stands for
\* None.  re.findall(r"[a-z]+", text) is the runs of lower-case letters.
parse_tip_source_of(text) ==
    IF text = <<>> THEN "None"
    ELSE IF \/ contains(text, << "l", "o", "n", "g", " ", "i", "s", "l", "a", "n", "d" >>)
            \/ contains(text, << "m", "o", "n", "t", "i", "a" >>)
    THEN "flat_price"
    ELSE IF token_source(split(MapSeq(text, clean))) # "None"
    THEN token_source(split(MapSeq(text, clean)))
    ELSE IF contains(text, << "s", "e", "a" >>) /\ contains(text, << "a", "i", "r" >>)
    THEN "sea_and_air"
    ELSE IF contains(text, << "f", "l", "a", "t" >>) THEN "flat_price"
    ELSE IF contains(text, << "s", "c", "a", "n", "i", "o" >>) THEN "scanio"
    ELSE "None"

parse_tip_source_from_note(note) ==
    parse_tip_source_of(MapSeq(normalize_spaces(note), lower))

\* d[name] += amount on a dictionary of amounts kept in insertion order.
add_amount(items, name, amount) ==
    IF item_index(items, name) = 0
    THEN Append(items, [name |-> name, amount |-> amount])
    ELSE [items EXCEPT ![item_index(items, name)].amount = @ + amount]

\* d.get(name, 0.0)
amount_of(items, name) ==
    IF item_index(items, name) = 0 THEN 0 ELSE items[item_index(items, name)].amount

\* totals_by_source[name][source] += amount
add_source_amount(by_source, name, source, amount) ==
    IF item_index(by_source, name) = 0
    THEN Append(by_source, [name |-> name, sources |-> add_amount(<<>>, source, amount)])
    ELSE [by_source EXCEPT ![item_index(by_source, name)].sources =
             add_amount(@, source, amount)]

\* The state of load_tips_csv: format_mode and the three results.
TipState(mode, totals, by_source, unknown) ==
    [mode |-> mode, totals |-> totals, by_source |-> by_source, unknown |-> unknown]

\* amount = cash_tips + card_tips, a field that is no number counted as 0,
\* and the amount read from the note when the sum is 0.
raw_amount(cash_tips, card_tips, inferred) ==
    IF (IF cash_tips.ok THEN cash_tips.value ELSE 0)
           + (IF card_tips.ok THEN card_tips.value ELSE 0) = 0 /\ inferred.ok
    THEN inferred.value
    ELSE (IF cash_tips.ok THEN cash_tips.value ELSE 0)
             + (IF card_tips.ok THEN card_tips.value ELSE 0)

\* A row in the raw format: the amount goes to the totals of the name, and
\* to the source of the note, or the note goes to unknown_tip_notes.
load_raw_row(st, name, note, amount, source) ==
    IF source = "None"
    THEN TipState(st.mode, add_amount(st.totals, name, amount), st.by_source,
                  IF \E i \in 1..Len(st.unknown) :
                         st.unknown[i] = [name |-> name, note |-> note]
                  THEN st.unknown
                  ELSE Append(st.unknown, [name |-> name, note |-> note]))
    ELSE TipState(st.mode, add_amount(st.totals, name, amount),
                  add_source_amount(st.by_source, name, source, amount), st.unknown)

\* The body of the reader loop of load_tips_csv for one row.
load_tips_row(st, row, first, second) ==
    IF MapSeq(first, upper) = << "N", "A", "M", "E" >>
          /\ MapSeq(second, upper) = << "C", "O", "M", "M", "I", "S", "S", "I", "O", "N" >>
    THEN [st EXCEPT !.mode = "simple"]
    ELSE IF MapSeq(first, upper) = << "E", "M", "P", " ", "L", " ", "N", "A", "M", "E" >>
          /\ MapSeq(second, upper) = << "E", "M", "P", " ", "F", " ", "N", "A", "M", "E" >>
    THEN [st EXCEPT !.mode = "raw"]
    ELSE IF st.mode = "simple"
    THEN IF first = <<>> \/ ~parse_number(second).ok
         THEN st
         ELSE [st EXCEPT !.totals = add_amount(@, first, parse_number(second).value)]
    ELSE IF st.mode = "raw"
    THEN IF first = <<>> \/ second = <<>>
         THEN st
         ELSE load_raw_row(st, normalize_spaces(second \o << " " >> \o first),
                           normalize_spaces(row.c3),
                           raw_amount(parse_number(row.c5), parse_number(row.c7),
                                      parse_tip_amount_from_note(normalize_spaces(row.c3))),
                           parse_tip_source_from_note(normalize_spaces(row.c3)))
    ELSE st

TIP_SOURCES == << "scanio", "sea_and_air", "flat_price" >>

\* TIP_SOURCE_TO_COMMISSION_COLUMN, in the order of its items.
TIP_SOURCE_TO_COMMISSION_COLUMN == << colH, colI, colJ >>

\* HOME_COMPANY_TO_TIP_SOURCE, by the index of the home company in Companies.
HOME_COMPANY_TO_TIP_SOURCE == << "scanio", "scanio", "sea_and_air", "flat_price" >>

\* pick_fallback_tip_source with the home company in every case.
pick_fallback_home_only(tip_breakdown, home_company) ==
    HOME_COMPANY_TO_TIP_SOURCE[home_company]

\* pick_fallback_tip_source: the stable sort in descending order puts first
\* the first of the items with the largest amount.
pick_fallback_tip_source(tip_breakdown, home_company) ==
    IF \E i \in 1..Len(tip_breakdown) : tip_breakdown[i].amount # 0
    THEN tip_breakdown[CHOOSE i \in 1..Len(tip_breakdown) :
                           /\ tip_breakdown[i].amount # 0
                           /\ \A j \in 1..Len(tip_breakdown) :
                                  tip_breakdown[j].amount # 0 =>
                                      /\ tip_breakdown[j].amount <= tip_breakdown[i].amount
                                      /\ (j < i => tip_breakdown[j].amount
                                                       < tip_breakdown[i].amount)].name
    ELSE HOME_COMPANY_TO_TIP_SOURCE[home_company]

\* sum(tip_breakdown.values())
assigned_amount(tip_breakdown) ==
    SumSeq([i \in 1..Len(tip_breakdown) |-> tip_breakdown[i].amount])

\* tip_breakdown with the remainder of the total left out.
with_remainder_dropped(tip_breakdown, remainder, home_company) == tip_breakdown

\* tip_breakdown after the remainder of the total went to the fallback source.
with_remainder(tip_breakdown, remainder, home_company) ==
    IF remainder # 0
    THEN add_amount(tip_breakdown,
                    pick_fallback_tip_source(tip_breakdown, home_company), remainder)
    ELSE tip_breakdown

\* tip_total and tip_breakdown of the employee loop for a tip source name
\* (a sequence of at most one name).
tip_total_of(totals, tip_source) ==
    IF tip_source = <<>> \/ tip_source[1] = <<>> THEN 0 ELSE amount_of(totals, tip_source[1])

tip_breakdown_of(by_source, tip_source) ==
    IF tip_source = <<>> \/ tip_source[1] = <<>> \/ item_index(by_source, tip_source[1]) = 0
    THEN <<>>
    ELSE by_source[item_index(by_source, tip_source[1])].sources

\* The set_numeric_cell calls of the employee loop for the tips of one entry:
\* the commission columns in the order of TIP_SOURCE_TO_COMMISSION_COLUMN,
\* then the total in G, which keeps a formula.
entry_tip_writes(entry, tip_total, tip_breakdown) ==
    [k \in 1..3 |->
        NWrite(entry.row_number, TIP_SOURCE_TO_COMMISSION_COLUMN[k],
               format_decimal_for_excel(amount_of(tip_breakdown, TIP_SOURCES[k]), 100),
               FALSE)]
    \o << NWrite(entry.row_number, colG, format_decimal_for_excel(tip_total, 100), TRUE) >>

(***************************************************************************)
(* SpecTips: fill_workbook without hours, from the tips CSV to the         *)
(* commission columns of the employee rows                                 *)
(***************************************************************************)
MaxTipRows == 3

TipRow(c0, c1, c3, c5, c7) == [c0 |-> c0, c1 |-> c1, c3 |-> c3, c5 |-> c5, c7 |-> c7]

RawHeader ==
    TipRow(<< "E", "m", "p", " ", "L", " ", "N", "a", "m", "e" >>,
           << "E", "m", "p", " ", "F", " ", "N", "a", "m", "e" >>, <<>>, <<>>, <<>>)

SimpleHeader ==
    TipRow(<< "N", "a", "m", "e" >>,
           << "C", "o", "m", "m", "i", "s", "s", "i", "o", "n" >>, <<>>, <<>>, <<>>)

Lee == << "L", "e", "e" >>
Ann == << "A", "n", "n" >>

\* Rows of the tips CSV after its header: a note that names a company by a
\* token, one with a "$" amount and a negative one, notes that name no
\* company (one of them blank, one that carries the amount), a name that only
\* the fuzzy pass resolves with a field that is no number, a second header,
\* and a row of the simple format.
TipRowPool ==
    << TipRow(Lee, Ann, << "S", "A", " ", "j", "o", "b" >>, << "1", "0" >>, <<>>),
       TipRow(Lee, Ann, << "s", "c", " ", "1", "2" >>, << "$", "5", ".", "5", "0" >>,
              << "-", "2" >>),
       TipRow(Lee, Ann, << "t", "h", "a", "n", "k", "s" >>, << "3" >>, <<>>),
       TipRow(<< "R", "a", "y" >>, << "A", "l" >>, <<>>, <<>>, << "4", ".", "2", "5" >>),
       TipRow(Lee, Ann, << "m", "a", "t", "s", " ", "@", " ", "$", "2", ".", "5", "0" >>,
              <<>>, <<>>),
       TipRow(<< "R", "o", "y" >>, << "A", "l" >>, << "f", "p" >>, << "n", "/", "a" >>,
              << "1" >>),
       SimpleHeader,
       TipRow(AnnLee, << "1", "2", ".", "5", "0" >>, <<>>, <<>>, <<>>) >>

\* The employee rows of a sheet whose rows 5, 6, .. carry the names, with
\* the home company of each (an index of Companies).
EmployeeRowsAt(names, homes) ==
    [i \in 1..Len(names) |->
        [row_number |-> 4 + i, workbook_name |-> names[i], home_company |-> homes[i]]]

TipEmployeeLists ==
    { [names |-> << AnnLee, AlRay >>, homes |-> << 1, 3 >>],
      [names |-> << AnnLee, AnaLee, AlRay >>, homes |-> << 4, 1, 2 >>] }

\* The sheet of the employee rows of a workbook that was filled before: H
\* of every row holds the commission 7 of the earlier fill.
FilledBefore(employee_sheet) ==
    [employee_sheet EXCEPT !.rows =
        [i \in 1..Len(employee_sheet.rows) |->
            [employee_sheet.rows[i] EXCEPT !.cells =
                set_numeric_cell(@, employee_sheet.rows[i].r, colH,
                                 Decimal(FALSE, 7, <<>>), FALSE)]]]

InitTips ==
    /\ \E e \in TipEmployeeLists :
          /\ sheet = FilledBefore(EmployeeSheet(e.names))
          /\ employee_rows = EmployeeRowsAt(e.names, e.homes)
    /\ prev = sheet
    /\ lastOp = NoOp
    /\ nOps = 0
    /\ pc = "load_tips"
    /\ counts = <<>>
    /\ insertions = <<>>
    /\ company_slots = <<>>
    /\ cur = 1
    /\ writes = 0
    /\ reimbursement_row = 101
    /\ hours_csv = <<>>
    /\ \E header \in {RawHeader, SimpleHeader} :
          \E rows \in UNION {[1..n -> {TipRowPool[i] : i \in 1..Len(TipRowPool)}] :
                                n \in 1..MaxTipRows} :
              tips_csv = << header >> \o rows
    /\ row_i = 1
    /\ format_mode = "None"
    /\ hours_by_source_name = <<>>
    /\ unknown_companies = <<>>
    /\ tip_totals_by_source_name = <<>>
    /\ tip_source_breakdown_by_source_name = <<>>
    /\ unknown_tip_notes = <<>>
    /\ workbook_names = <<>>
    /\ source_names = <<>>
    /\ qi = 1
    /\ used_workbook_names = {}
    /\ source_to_workbook = <<>>
    /\ unmatched_sources = <<>>
    /\ passOf = <<>>
    /\ RestIdle

\* The state of the loader after one row.
loaded_tips(st) ==
    /\ format_mode' = st.mode
    /\ tip_totals_by_source_name' = st.totals
    /\ tip_source_breakdown_by_source_name' = st.by_source
    /\ unknown_tip_notes' = st.unknown

\* One iteration of the reader loop of load_tips_csv.
LoadTipsRow ==
    /\ pc = "load_tips"
    /\ row_i <= Len(tips_csv)
    /\ loaded_tips(load_tips_row(TipState(format_mode, tip_totals_by_source_name,
                                          tip_source_breakdown_by_source_name,
                                          unknown_tip_notes),
                                 tips_csv[row_i],
                                 normalize_spaces(tips_csv[row_i].c0),
                                 normalize_spaces(tips_csv[row_i].c1)))
    /\ row_i' = row_i + 1
    /\ UNCHANGED <<shiftVars, fillVars, matchVars, hourVars, tips_csv, restVars>>

\* fill_workbook between the loader and the loop of the second match_names:
\* the queries are the keys of the tip totals.
StartTipsMatch ==
    /\ pc = "load_tips"
    /\ row_i > Len(tips_csv)
    /\ source_names' = [i \in 1..Len(tip_totals_by_source_name) |->
                           tip_totals_by_source_name[i].name]
    /\ workbook_names' = [i \in 1..Len(employee_rows) |-> employee_rows[i].workbook_name]
    /\ pc' = "match_tips"
    /\ UNCHANGED <<shiftVars, counts, insertions, company_slots, cur, writes,
                   reimbursement_row, employee_rows, qi, used_workbook_names,
                   source_to_workbook, unmatched_sources, passOf, dataVars, restVars>>

\* The writes of one iteration of the employee loop when no hours were
\* loaded: 0 in the hour columns, then the tips when there are tip totals.
entry_writes(entry, tip_total, tip_breakdown) ==
    entry_hour_writes(entry, <<>>)
    \o (IF tip_totals_by_source_name # <<>>
        THEN entry_tip_writes(entry, tip_total,
                              with_remainder(tip_breakdown,
                                             tip_total - assigned_amount(tip_breakdown),
                                             entry.home_company))
        ELSE <<>>)

\* One iteration of the employee loop of fill_workbook.
WriteEntryTips ==
    /\ pc = "match_tips"
    /\ qi > Len(source_names)
    /\ cur <= Len(employee_rows)
    /\ sheet' = [sheet EXCEPT !.rows =
                    apply_writes(sheet.rows,
                        entry_writes(employee_rows[cur],
                            tip_total_of(tip_totals_by_source_name,
                                workbook_to_source(source_to_workbook,
                                                   employee_rows[cur].workbook_name)),
                            tip_breakdown_of(tip_source_breakdown_by_source_name,
                                workbook_to_source(source_to_workbook,
                                                   employee_rows[cur].workbook_name))))]
    /\ prev' = sheet
    /\ lastOp' = [NoOp EXCEPT !.op = "entry", !.tgt = employee_rows[cur].row_number]
    /\ writes' = writes + (IF tip_totals_by_source_name # <<>> THEN 7 ELSE 3)
    /\ cur' = cur + 1
    /\ pc' = IF cur = Len(employee_rows) THEN "tips_filled" ELSE pc
    /\ UNCHANGED <<nOps, counts, insertions, company_slots, reimbursement_row,
                   employee_rows, matchVars, dataVars, restVars>>

NextTips == LoadTipsRow \/ StartTipsMatch \/ MatchOne \/ WriteEntryTips

SpecTips == InitTips /\ [][NextTips]_vars

\* The commission columns of row_number hold the amounts of tip_breakdown.
TipsWritten(row_number, tip_breakdown) ==
    \A k \in 1..3 :
        ValueAt(row_number, TIP_SOURCE_TO_COMMISSION_COLUMN[k]) =
            << format_decimal_for_excel(amount_of(tip_breakdown, TIP_SOURCES[k]), 100) >>

\* source is the source with the largest nonzero amount of tip_breakdown, or
\* the tip source of the home company when no amount is nonzero.
Dominant(tip_breakdown, source, home_company) ==
    IF \E i \in 1..Len(tip_breakdown) : tip_breakdown[i].amount # 0
    THEN /\ amount_of(tip_breakdown, source) # 0
         /\ \A i \in 1..Len(tip_breakdown) :
                tip_breakdown[i].amount # 0 =>
                    tip_breakdown[i].amount <= amount_of(tip_breakdown, source)
    ELSE source = HOME_COMPANY_TO_TIP_SOURCE[home_company]

\* The rule of the remainder for an employee row with tip total and
\* breakdown: one source, the dominant one, holds its amount plus the
\* remainder, the other two hold their amounts.
RemainderRule(entry, tip_total, tip_breakdown) ==
    tip_total # assigned_amount(tip_breakdown) =>
        \E k \in 1..3 :
            /\ Dominant(tip_breakdown, TIP_SOURCES[k], entry.home_company)
            /\ ValueAt(entry.row_number, TIP_SOURCE_TO_COMMISSION_COLUMN[k]) =
                   << format_decimal_for_excel(
                          amount_of(tip_breakdown, TIP_SOURCES[k])
                              + tip_total - assigned_amount(tip_breakdown), 100) >>
            /\ \A j \in 1..3 \ {k} :
                   ValueAt(entry.row_number, TIP_SOURCE_TO_COMMISSION_COLUMN[j]) =
                       << format_decimal_for_excel(
                              amount_of(tip_breakdown, TIP_SOURCES[j]), 100) >>

\* The employee rows a tip source name is mapped to.
MatchedEntries ==
    {i \in 1..Len(employee_rows) :
        \E m \in 1..Len(source_to_workbook) :
            source_to_workbook[m].workbook = employee_rows[i].workbook_name}

TipSourceOf(i) ==
    source_to_workbook[CHOOSE m \in 1..Len(source_to_workbook) :
                           source_to_workbook[m].workbook = employee_rows[i].workbook_name]
        .source

\* C12: when the employee loop is through, for every matched employee whose
\* tip total differs from the sum of its breakdown, the whole remainder is in
\* the column of the source with the largest nonzero breakdown amount, or of
\* the home company's tip source when every amount is zero or absent, and
\* the other two commission columns hold their breakdown amounts.
C12_RemainderToDominantSource ==
    pc = "tips_filled" =>
        \A i \in MatchedEntries :
            RemainderRule(employee_rows[i],
                          amount_of(tip_totals_by_source_name, TipSourceOf(i)),
                          tip_breakdown_of(tip_source_breakdown_by_source_name,
                                           << TipSourceOf(i) >>))

\* A matched employee whose remainder went to a dominant source that is not
\* the home company's (10 in sea_and_air, 3 unassigned: I holds 13, H holds
\* 0), next to one whose remainder went to the home company's source.
C12_Witness ==
    /\ pc = "tips_filled"
    /\ \E i \in MatchedEntries :
           /\ amount_of(tip_totals_by_source_name, TipSourceOf(i)) = 1300
           /\ HOME_COMPANY_TO_TIP_SOURCE[employee_rows[i].home_company] # "sea_and_air"
           /\ ValueAt(employee_rows[i].row_number, colI) = << Decimal(FALSE, 13, <<>>) >>
           /\ ValueAt(employee_rows[i].row_number, colH) = << Decimal(FALSE, 0, <<>>) >>
    /\ \E i \in MatchedEntries :
           /\ tip_breakdown_of(tip_source_breakdown_by_source_name,
                               << TipSourceOf(i) >>) = <<>>
           /\ amount_of(tip_totals_by_source_name, TipSourceOf(i)) = 425
           /\ ValueAt(employee_rows[i].row_number,
                      TIP_SOURCE_TO_COMMISSION_COLUMN[
                          CHOOSE k \in 1..3 :
                              TIP_SOURCES[k] = HOME_COMPANY_TO_TIP_SOURCE[
                                                   employee_rows[i].home_company]]) =
                  << Decimal(FALSE, 4, << 2, 5 >>) >>

(***************************************************************************)
(* Reassembly: the text splices and the repackaging of fill_workbook        *)
(*                                                                         *)
(* The text of an XML part is the sequence of the fragments inside its     *)
(* root: an element in block form (<t ..>..</t>) or in empty form (<t ../>),*)
(* possibly inside a comment, where the parser does not see it and a       *)
(* regular expression does.  body stands for the content, prefix for the   *)
(* namespace prefix of the tags.  A spanning match is modelled for texts   *)
(* in which no comment opens before it.                                    *)
(***************************************************************************)
NS_MAIN == "http://schemas.openxmlformats.org/spreadsheetml/2006/main"
NS_REL == "http://schemas.openxmlformats.org/package/2006/relationships"

Frag(tag, form, body, comment) ==
    [tag |-> tag, form |-> form, body |-> body, comment |-> comment, prefix |-> ""]

\* xml.etree.ElementTree.register_namespace: every mapping of the prefix or
\* of the uri is removed, then the uri is mapped to the prefix.
register_namespace(map, prefix, uri) ==
    [k \in {u \in DOMAIN map : u # uri /\ map[u] # prefix} \cup {uri} |->
        IF k = uri THEN prefix ELSE map[k]]

\* ET.tostring of an element of namespace uri: the registered prefix of the
\* uri, or a generated one.
tostring(elem, map, uri) ==
    [elem EXCEPT !.prefix = IF uri \in DOMAIN map THEN map[uri] ELSE "ns0",
                 !.comment = FALSE]

\* ET.fromstring(..).find("a:" + tag): the first element with the tag, as a
\* sequence of at most one fragment.
find(text, tag) ==
    IF \E i \in 1..Len(text) : text[i].tag = tag /\ ~text[i].comment
    THEN << text[CHOOSE i \in 1..Len(text) :
                     /\ text[i].tag = tag /\ ~text[i].comment
                     /\ \A j \in 1..(i - 1) : ~(text[j].tag = tag /\ ~text[j].comment)] >>
    ELSE <<>>

\* The first position from i on with an opening tag, and the first with a
\* closing tag, 0 when there is none.
first_open(text, tag, i) ==
    IF \E k \in i..Len(text) : text[k].tag = tag
    THEN CHOOSE k \in i..Len(text) :
             text[k].tag = tag /\ \A j \in i..(k - 1) : text[j].tag # tag
    ELSE 0

first_close(text, tag, i) ==
    IF \E k \in i..Len(text) : text[k].tag = tag /\ text[k].form = "block"
    THEN CHOOSE k \in i..Len(text) :
             /\ text[k].tag = tag /\ text[k].form = "block"
             /\ \A j \in i..(k - 1) : ~(text[j].tag = tag /\ text[j].form = "block")
    ELSE 0

\* The first match of SHEET_DATA_XML_RE (empty_form FALSE) or CALC_PR_XML_RE
\* (empty_form TRUE) from position i on: from the first opening tag to the
\* first closing tag after it; without a closing tag, CALC_PR_XML_RE
\* matches an element in empty form.  k = 0 for no match.
re_search(text, tag, i, k, empty_form) ==
    IF k = 0 THEN [k |-> 0, j |-> 0]
    ELSE IF first_close(text, tag, k) # 0 THEN [k |-> k, j |-> first_close(text, tag, k)]
    ELSE IF empty_form /\ text[k].form = "empty" THEN [k |-> k, j |-> k]
    ELSE [k |-> 0, j |-> 0]

\* len(re.findall(text)) from position i on
RECURSIVE occurrences(_, _, _, _)
occurrences(text, tag, i, empty_form) ==
    LET m == re_search(text, tag, i, first_open(text, tag, i), empty_form)
    IN  IF m.k = 0 THEN 0 ELSE 1 + occurrences(text, tag, m.j + 1, empty_form)

\* re.subn(repl, text, count=1) with the match m: the text and the number of
\* replacements.  A match that ends inside a comment leaves the end of the
\* comment behind.
subn(text, repl, m) ==
    IF m.k = 0 THEN [text |-> text, replacements |-> 0]
    ELSE [text |-> SubSeq(text, 1, m.k - 1)
                       \o << [repl EXCEPT !.comment = text[m.k].comment] >>
                       \o (IF m.j > m.k /\ text[m.j].comment
                           THEN << Frag("-->", "text", "", FALSE) >> ELSE <<>>)
                       \o SubSeq(text, m.j + 1, Len(text)),
          replacements |-> 1]

\* ET.fromstring: the elements of the text.
fromstring(text) == SelectSeq(text, LAMBDA f : ~f.comment)

RECALC == "fullCalcOnLoad=1 forceFullCalc=1 calcMode=auto"

\* ensure_recalc_on_open on the tree of the workbook part: the first calcPr
\* element, added when there is none, gets the three flags.
ensure_recalc_on_open(workbook_root) ==
    IF first_open(workbook_root, "calcPr", 1) = 0
    THEN Append(workbook_root, Frag("calcPr", "empty", RECALC, FALSE))
    ELSE [workbook_root EXCEPT ![first_open(workbook_root, "calcPr", 1)].body = RECALC]

\* merge_sheet_data_into_original_xml with the namespace registry after
\* its register_namespace: ok is FALSE for the ValueError.
merge_sheet_data_into_original_xml(original_xml, sheet_data, map) ==
    LET res == subn(original_xml, tostring(sheet_data, map, NS_MAIN),
                    re_search(original_xml, "sheetData", 1,
                              first_open(original_xml, "sheetData", 1), FALSE))
    IN  [ok |-> res.replacements = 1, bytes |-> res.text]

\* merge_calc_pr_into_original_workbook_xml
merge_calc_pr_into_original_workbook_xml(original_xml, calc, map) ==
    IF calc = <<>> THEN original_xml
    ELSE LET res == subn(original_xml, tostring(calc[1], map, NS_MAIN),
                         re_search(original_xml, "calcPr", 1,
                                   first_open(original_xml, "calcPr", 1), TRUE))
         IN  IF res.replacements # 1 THEN original_xml ELSE res.text

\* remove_calc_chain_relationship: the bytes, removed, and the registry.
remove_calc_chain_relationship(rels, map) ==
    IF \E i \in 1..Len(rels) : ~rels[i].comment /\ rels[i].body = "calcChain"
    THEN [bytes |-> MapSeq(SelectSeq(rels, LAMBDA f : ~f.comment /\ f.body # "calcChain"),
                           LAMBDA f : tostring(f, register_namespace(map, "", NS_REL),
                                               NS_REL)),
          removed |-> TRUE,
          map |-> register_namespace(map, "", NS_REL)]
    ELSE [bytes |-> rels, removed |-> FALSE, map |-> map]

(***************************************************************************)
(* SpecPack: fill_workbook from the opening of the template archive to the *)
(* closing of the output archive.  The patched worksheet tree is carried   *)
(* as the body "filled" of its sheetData element.                          *)
(***************************************************************************)
MaxOtherParts == 2

WORKBOOK_PATH == "template.xlsx"
OTHER_PATH == "filled.xlsx"
SUMMARY_PATH == "tips_simple.csv"

SHARED_STRINGS == "xl/sharedStrings.xml"
WORKBOOK_XML == "xl/workbook.xml"
SHEET1_XML == "xl/worksheets/sheet1.xml"
workbook_rels_path == "xl/_rels/workbook.xml.rels"
CALC_CHAIN_XML == "xl/calcChain.xml"

Part(name, data) == [name |-> name, data |-> data]

\* The texts of sheet1.xml: without sheetData, with the element in block or
\* in empty form, with a copy of the block in a comment before the element,
\* and with the element in empty form before such a comment.
SheetTexts ==
    { << Frag("dimension", "empty", "A1:Q101", FALSE) >>,
      << Frag("sheetData", "block", "template", FALSE),
         Frag("pageMargins", "empty", "", FALSE) >>,
      << Frag("sheetData", "empty", "", FALSE) >>,
      << Frag("sheetData", "block", "draft", TRUE),
         Frag("sheetData", "block", "template", FALSE) >>,
      << Frag("sheetData", "empty", "", FALSE),
         Frag("sheetData", "block", "draft", TRUE) >> }

\* The texts of workbook.xml: without calcPr, with it, and with a copy in a
\* comment before it.
WorkbookTexts ==
    { << Frag("sheets", "block", "Sheet1", FALSE) >>,
      << Frag("sheets", "block", "Sheet1", FALSE),
         Frag("calcPr", "empty", "calcId=191029", FALSE) >>,
      << Frag("calcPr", "empty", "calcId=0", TRUE),
         Frag("calcPr", "empty", "calcId=191029", FALSE) >> }

\* The texts of workbook.xml.rels: with and without the calcChain relationship.
RelsTexts ==
    { << Frag("Relationship", "empty", "worksheet", FALSE) >>,
      << Frag("Relationship", "empty", "worksheet", FALSE),
         Frag("Relationship", "empty", "calcChain", FALSE) >> }

OtherNames == << "[Content_Types].xml", "xl/styles.xml", "xl/theme/theme1.xml" >>

\* The parts of a template archive, in the order of the archive; workbook_xml,
\* rels and sheet1 are sequences of at most one part.
ArchiveOf(n_other, shared, workbook_xml, rels, sheet1, calc_chain) ==
    << Part(OtherNames[1], "types") >>
    \o (IF shared THEN << Part(SHARED_STRINGS, "sst") >> ELSE <<>>)
    \o workbook_xml \o rels \o sheet1
    \o [i \in 1..(n_other - 1) |-> Part(OtherNames[i + 1], "styles")]
    \o (IF calc_chain THEN << Part(CALC_CHAIN_XML, "chain") >> ELSE <<>>)

Archives ==
    { ArchiveOf(n, shared, w, r, s, c) :
        n \in 1..MaxOtherParts, shared \in BOOLEAN, c \in BOOLEAN,
        w \in {<<>>} \cup {<< Part(WORKBOOK_XML, t) >> : t \in WorkbookTexts},
        r \in {<<>>} \cup {<< Part(workbook_rels_path, t) >> : t \in RelsTexts},
        s \in {<<>>} \cup {<< Part(SHEET1_XML, t) >> : t \in SheetTexts} }

names_of(parts) == [i \in 1..Len(parts) |-> parts[i].name]

namelist(parts) == {parts[i].name : i \in 1..Len(parts)}

\* zin.read(name) on the parts of the archive: the data of the part.
read(parts, name) == parts[CHOOSE i \in 1..Len(parts) : parts[i].name = name].data

\* The files before the call: the template, and nothing at the other paths.
FilesBefore(template) ==
    [path \in {WORKBOOK_PATH, OTHER_PATH, SUMMARY_PATH} |->
        IF path = WORKBOOK_PATH THEN [exists |-> TRUE, content |-> template]
        ELSE [exists |-> FALSE, content |-> <<>>]]

InitPack ==
    /\ ShiftIdle /\ MatchIdle /\ DataIdle
    /\ pc = "open"
    /\ counts = <<>>
    /\ insertions = <<>>
    /\ company_slots = <<>>
    /\ cur = 0
    /\ writes = 0
    /\ reimbursement_row = 0
    /\ employee_rows = <<>>
    /\ archive \in Archives
    /\ fs = FilesBefore(archive)
    /\ output_path \in {WORKBOOK_PATH, OTHER_PATH}
    /\ tip_summary_output_path \in {"None", SUMMARY_PATH}
    /\ infolist = <<>>
    /\ item_i = 0
    /\ sheet1_bytes = <<>>
    /\ workbook_bytes = <<>>
    /\ updated_workbook_rels_bytes = <<>>
    /\ remove_calc_chain_part = FALSE
    /\ error = "none"
    /\ ThreadIdle

\* fill_workbook raises: the position is lost, the exception is kept.
raise(exception) ==
    /\ pc' = "error"
    /\ error' = exception

otherFillVars == <<counts, insertions, company_slots, cur, writes, reimbursement_row,
                   employee_rows>>

\* zipfile.ZipFile(workbook_path, "r"): the directory of the archive is read.
OpenTemplate ==
    /\ pc = "open"
    /\ infolist' = names_of(fs[WORKBOOK_PATH].content)
    /\ pc' = "read"
    /\ UNCHANGED <<shiftVars, otherFillVars, matchVars, dataVars, archive, fs, output_path,
                   tip_summary_output_path, item_i, sheet1_bytes, workbook_bytes,
                   updated_workbook_rels_bytes, remove_calc_chain_part, error,
                   threadVars>>

\* The reads of the parts and the search of sheetData: a missing part is a
\* KeyError of zin.read, a worksheet without the element a ValueError.
ReadParts ==
    /\ pc = "read"
    /\ IF \E name \in {SHARED_STRINGS, WORKBOOK_XML, SHEET1_XML} :
              name \notin namelist(fs[WORKBOOK_PATH].content)
       THEN raise("KeyError")
       ELSE IF find(fromstring(read(fs[WORKBOOK_PATH].content, SHEET1_XML)), "sheetData")
                   = <<>>
       THEN raise("ValueError")
       ELSE pc' = "summary" /\ UNCHANGED error
    /\ UNCHANGED <<shiftVars, otherFillVars, matchVars, dataVars, archive, fs, output_path,
                   tip_summary_output_path, infolist, item_i, sheet1_bytes,
                   workbook_bytes, updated_workbook_rels_bytes, remove_calc_chain_part,
                   threadVars>>

\* write_tip_summary_csv, when a path for the summary is given.
WriteTipSummary ==
    /\ pc = "summary"
    /\ fs' = IF tip_summary_output_path # "None"
             THEN [fs EXCEPT ![tip_summary_output_path] =
                      [exists |-> TRUE, content |-> << "Name,Commission" >>]]
             ELSE fs
    /\ pc' = "merge"
    /\ UNCHANGED <<shiftVars, otherFillVars, matchVars, dataVars, archive, output_path,
                   tip_summary_output_path, infolist, item_i, sheet1_bytes,
                   workbook_bytes, updated_workbook_rels_bytes, remove_calc_chain_part,
                   error, threadVars>>

\* The sheetData element of the worksheet tree after the employee loop and
\* the status formula: it has rows, so it is serialized in block form.
filled(sheet_data) == [sheet_data EXCEPT !.form = "block", !.body = "filled"]

\* The results of the two merges and of remove_calc_chain_relationship for
\* the parts of the template, from the registry the first merge finds.
merged_parts(parts, map) ==
    LET main  == register_namespace(map, "", NS_MAIN)
        sheet1 == merge_sheet_data_into_original_xml(
                     read(parts, SHEET1_XML),
                     filled(find(fromstring(read(parts, SHEET1_XML)), "sheetData")[1]),
                     main)
        workbook == merge_calc_pr_into_original_workbook_xml(
                     read(parts, WORKBOOK_XML),
                     find(ensure_recalc_on_open(fromstring(read(parts, WORKBOOK_XML))),
                          "calcPr"),
                     main)
        rels == IF workbook_rels_path \in namelist(parts)
                 THEN remove_calc_chain_relationship(read(parts, workbook_rels_path), main)
                 ELSE [bytes |-> <<>>, removed |-> FALSE, map |-> main]
    IN  [sheet |-> sheet1, book |-> workbook, rels |-> rels]

\* fill_workbook from ensure_recalc_on_open to remove_calc_chain_relationship.
MergeParts ==
    /\ pc = "merge"
    /\ LET m == merged_parts(fs[WORKBOOK_PATH].content, namespace_map)
       IN  IF ~m.sheet.ok
           THEN /\ raise("ValueError")
                /\ namespace_map' = register_namespace(namespace_map, "", NS_MAIN)
                /\ UNCHANGED <<sheet1_bytes, workbook_bytes, updated_workbook_rels_bytes,
                               remove_calc_chain_part>>
           ELSE /\ sheet1_bytes' = m.sheet.bytes
                /\ workbook_bytes' = m.book
                /\ updated_workbook_rels_bytes' = m.rels.bytes
                /\ remove_calc_chain_part' = m.rels.removed
                /\ namespace_map' = m.rels.map
                /\ pc' = "output"
                /\ UNCHANGED error
    /\ UNCHANGED <<shiftVars, otherFillVars, matchVars, dataVars, archive, fs, output_path,
                   tip_summary_output_path, infolist, item_i, thread_pc, thread_rels,
                   thread_out>>

\* zipfile.ZipFile(output_path, "w"): the file is created or truncated.
OpenOutput ==
    /\ pc = "output"
    /\ fs' = [fs EXCEPT ![output_path] = [exists |-> TRUE, content |-> <<>>]]
    /\ item_i' = 1
    /\ pc' = "copy"
    /\ UNCHANGED <<shiftVars, otherFillVars, matchVars, dataVars, archive, output_path,
                   tip_summary_output_path, infolist, sheet1_bytes, workbook_bytes,
                   updated_workbook_rels_bytes, remove_calc_chain_part, error,
                   threadVars>>

\* data of the copy loop for the item name: every part gets the worksheet.
item_data_sheet(name, data, has_rels) == sheet1_bytes

\* data of the copy loop for the item name, read as data.
item_data(name, data, has_rels) ==
    IF name = SHEET1_XML THEN sheet1_bytes
    ELSE IF name = WORKBOOK_XML THEN workbook_bytes
    ELSE IF has_rels /\ name = workbook_rels_path THEN updated_workbook_rels_bytes
    ELSE data

\* One iteration of the copy loop.  zin.read finds the part where the
\* directory said only while the template file is as it was opened.
CopyItem ==
    /\ pc = "copy"
    /\ item_i <= Len(infolist)
    /\ IF remove_calc_chain_part /\ infolist[item_i] = CALC_CHAIN_XML
       THEN /\ item_i' = item_i + 1
            /\ UNCHANGED <<pc, error, fs>>
       ELSE IF fs[WORKBOOK_PATH].content # archive
       THEN /\ raise("BadZipFile")
            /\ UNCHANGED <<item_i, fs>>
       ELSE /\ fs' = [fs EXCEPT ![output_path].content =
                         Append(@, Part(infolist[item_i],
                                        item_data(infolist[item_i],
                                                  read(archive, infolist[item_i]),
                                                  workbook_rels_path \in namelist(archive))))]
            /\ item_i' = item_i + 1
            /\ UNCHANGED <<pc, error>>
    /\ UNCHANGED <<shiftVars, otherFillVars, matchVars, dataVars, archive, output_path,
                   tip_summary_output_path, infolist, sheet1_bytes, workbook_bytes,
                   updated_workbook_rels_bytes, remove_calc_chain_part, threadVars>>

\* The end of the copy loop: both archives are closed, fill_workbook returns.
CloseOutput ==
    /\ pc = "copy"
    /\ item_i > Len(infolist)
    /\ pc' = "done"
    /\ UNCHANGED <<shiftVars, otherFillVars, matchVars, dataVars, packVars, threadVars>>

NextPack ==
    \/ OpenTemplate \/ ReadParts \/ WriteTipSummary \/ MergeParts \/ OpenOutput
    \/ CopyItem \/ CloseOutput

SpecPack == InitPack /\ [][NextPack]_vars

\* The output archive, and the texts of the template's worksheet and
\* workbook parts.
Output == fs[output_path].content

Sheet1Text == read(archive, SHEET1_XML)

WorkbookText == read(archive, WORKBOOK_XML)

\* Both merges returned bytes.
Merged == pc \in {"output", "copy", "done"}

\* C14: the reassembly of the worksheet part and of the workbook part
\* return bytes only when the fragment to replace occurs exactly once in
\* the original text; with no occurrence or with two or more the operation
\* aborts.  (The code replaces the first of several occurrences, and keeps
\* the original workbook text when calcPr does not occur.)
C14_MergeOnlyOnSingleOccurrence ==
    Merged =>
        /\ occurrences(Sheet1Text, "sheetData", 1, FALSE) = 1
        /\ occurrences(WorkbookText, "calcPr", 1, TRUE) = 1

\* C15: the workbook part of every output archive of a fill_workbook that
\* returned has a calcPr element with fullCalcOnLoad=1, forceFullCalc=1 and
\* calcMode=auto.  (The code loses the element it added to the tree of a
\* workbook part without calcPr.)
C15_OutputRecalculates ==
    pc = "done" =>
        /\ find(fromstring(read(Output, WORKBOOK_XML)), "calcPr") # <<>>
        /\ find(fromstring(read(Output, WORKBOOK_XML)), "calcPr")[1].body = RECALC

\* C16: the part names of the output archive are those of the template
\* without xl/calcChain.xml, whether or not the relationships part exists or
\* lists the calc chain.  (The code keeps the part unless the relationships
\* part lists it.)
C16_PartSetWithoutCalcChain ==
    pc = "done" => namelist(Output) = namelist(archive) \ {CALC_CHAIN_XML}

\* The parts that the fill does not touch, in the order of the archive.
OtherParts(parts) ==
    SelectSeq(parts,
              LAMBDA part : part.name \notin {SHEET1_XML, WORKBOOK_XML, workbook_rels_path,
                                              CALC_CHAIN_XML})

IsPrefix(s, t) == Len(s) <= Len(t) /\ s = SubSeq(t, 1, Len(s))

\* C17: every part other than the worksheet, workbook, relationships and
\* calc-chain parts is copied with the name and the data it has in the
\* template, in the order of the template: while the output is written its
\* other parts are a prefix of the template's, and all of them when
\* fill_workbook returns.
C17_OtherPartsCopied ==
    /\ pc = "copy" => IsPrefix(OtherParts(Output), OtherParts(archive))
    /\ pc = "done" => OtherParts(Output) = OtherParts(archive)

\* A finished fill of an archive with three other parts around the patched
\* ones, whose worksheet part changed and whose calc chain was removed.
C17_Witness ==
    /\ pc = "done"
    /\ Len(OtherParts(Output)) = 3
    /\ names_of(archive)[Len(archive) - 1] = "xl/styles.xml"
    /\ read(Output, SHEET1_XML) # Sheet1Text
    /\ remove_calc_chain_part
    /\ CALC_CHAIN_XML \notin namelist(Output)

\* C18: when fill_workbook raises a structural error (a missing part, a
\* worksheet without sheetData, a splice that finds no fragment), no file
\* was created or modified: every path holds what it held before the call.
\* (The code writes the tip summary before the splice.)
C18_ErrorLeavesNoFile ==
    error \in {"KeyError", "ValueError"} => fs = FilesBefore(archive)

\* C20: the template file holds its bytes at every moment of fill_workbook,
\* also when output_path is the path of the template.  (The code truncates
\* the template when it opens that output.)
C20_TemplateUnchanged ==
    fs[WORKBOOK_PATH] = [exists |-> TRUE, content |-> archive]

(***************************************************************************)
(* SpecThreads: the serializations of fill_workbook on the worker threads  *)
(* of JOB_EXECUTOR.  Each thread has its own trees; the namespace registry *)
(* of xml.etree.ElementTree is one per process.  A step is one call of     *)
(* register_namespace or of tostring.                                      *)
(***************************************************************************)
MaxThreads == 2

Threads == 1..MaxThreads

InitThreads ==
    /\ ShiftIdle /\ FillIdle /\ MatchIdle /\ DataIdle /\ PackIdle
    /\ namespace_map = <<>>
    /\ thread_pc = [t \in Threads |-> "sheet_register"]
    /\ thread_rels \in [Threads -> BOOLEAN]
    /\ thread_out = [t \in Threads |-> <<>>]

\* Thread t moves to the position next; the registry becomes map and the
\* fragments of serialized are added to the thread's output.
thread_step(t, next, map, serialized) ==
    /\ thread_pc' = [thread_pc EXCEPT ![t] = next]
    /\ namespace_map' = map
    /\ thread_out' = [thread_out EXCEPT ![t] = @ \o serialized]
    /\ UNCHANGED <<shiftVars, fillVars, matchVars, dataVars, packVars, thread_rels>>

\* merge_sheet_data_into_original_xml: ET.register_namespace("", NS_MAIN)
RegisterForSheetData ==
    \E t \in Threads :
        /\ thread_pc[t] = "sheet_register"
        /\ thread_step(t, "sheet_tostring",
                       register_namespace(namespace_map, "", NS_MAIN), <<>>)

\* merge_sheet_data_into_original_xml: ET.tostring(sheet_data)
SerializeSheetData ==
    \E t \in Threads :
        /\ thread_pc[t] = "sheet_tostring"
        /\ thread_step(t, "calc_register", namespace_map,
                       << tostring(Frag("sheetData", "block", "filled", FALSE),
                                   namespace_map, NS_MAIN) >>)

\* merge_calc_pr_into_original_workbook_xml: ET.register_namespace("", NS_MAIN)
RegisterForCalcPr ==
    \E t \in Threads :
        /\ thread_pc[t] = "calc_register"
        /\ thread_step(t, "calc_tostring",
                       register_namespace(namespace_map, "", NS_MAIN), <<>>)

\* merge_calc_pr_into_original_workbook_xml: ET.tostring(calc)
SerializeCalcPr ==
    \E t \in Threads :
        /\ thread_pc[t] = "calc_tostring"
        /\ thread_step(t, "rels", namespace_map,
                       << tostring(Frag("calcPr", "empty", RECALC, FALSE),
                                   namespace_map, NS_MAIN) >>)

\* remove_calc_chain_relationship up to its return without a removal.
CheckRels ==
    \E t \in Threads :
        /\ thread_pc[t] = "rels"
        /\ thread_step(t, IF thread_rels[t] THEN "rels_register" ELSE "done",
                       namespace_map, <<>>)

\* remove_calc_chain_relationship: ET.register_namespace("", NS_REL)
RegisterForRels ==
    \E t \in Threads :
        /\ thread_pc[t] = "rels_register"
        /\ thread_step(t, "rels_tostring",
                       register_namespace(namespace_map, "", NS_REL), <<>>)

\* remove_calc_chain_relationship: ET.tostring(root)
SerializeRels ==
    \E t \in Threads :
        /\ thread_pc[t] = "rels_tostring"
        /\ thread_step(t, "done", namespace_map,
                       << tostring(Frag("Relationships", "block", "worksheet", FALSE),
                                   namespace_map, NS_REL) >>)

NextThreads ==
    \/ RegisterForSheetData \/ SerializeSheetData \/ RegisterForCalcPr
    \/ SerializeCalcPr \/ CheckRels \/ RegisterForRels \/ SerializeRels

SpecThreads == InitThreads /\ [][NextThreads]_vars

\* C19: under every interleaving of the fill operations of the worker
\* threads, each serialized sheetData and calcPr fragment uses the default
\* namespace, as in a run of one operation after the other.  (The code has
\* the threads write one registry: a register_namespace("", NS_REL) of one
\* thread between the register_namespace("", NS_MAIN) and the tostring of
\* another makes that tostring write the generated prefix ns0.)
C19_FragmentsKeepDefaultNamespace ==
    \A t \in Threads :
        \A i \in 1..Len(thread_out[t]) :
            thread_out[t][i].tag \in {"sheetData", "calcPr"} => thread_out[t][i].prefix = ""

(***************************************************************************)
(* The commission columns against the tip totals (SpecTips)                *)
(***************************************************************************)
\* The amount, in cents, of a decimal text with at most two digits after
\* the point.
cents_of(decimal) ==
    (IF decimal.neg THEN 0 - 1 ELSE 1)
        * (100 * decimal.whole
               + 10 * (IF Len(decimal.frac) >= 1 THEN decimal.frac[1] ELSE 0)
               + (IF Len(decimal.frac) >= 2 THEN decimal.frac[2] ELSE 0))

\* The amount in the cell column + row_number, 0 for a cell without value.
CellCents(row_number, column) ==
    IF ValueAt(row_number, column) = <<>> THEN 0
    ELSE cents_of(ValueAt(row_number, column)[1])

CommissionSum(row_number) ==
    CellCents(row_number, colH) + CellCents(row_number, colI) + CellCents(row_number, colJ)

\* H, I and J of every matched employee row sum to the total of its tip
\* source, and are 0 in every other employee row.
CommissionsAgree ==
    \A i \in 1..Len(employee_rows) :
        IF i \in MatchedEntries
        THEN CommissionSum(employee_rows[i].row_number) =
                 amount_of(tip_totals_by_source_name, TipSourceOf(i))
        ELSE \A k \in 1..3 :
                 CellCents(employee_rows[i].row_number,
                           TIP_SOURCE_TO_COMMISSION_COLUMN[k]) = 0

\* C30 as stated: after fill_workbook, H, I and J of every employee row with
\* a matched tip source sum to the source's total, and are all 0 in every
\* row without one.  (When the tips CSV gives no total at all, the loop
\* leaves the commission columns of the template as they are.)
C30_CommissionsSumToTotal ==
    pc = "tips_filled" => CommissionsAgree

\* C30: after a fill_workbook whose tips CSV gave at least one total, H, I
\* and J of every employee row with a matched tip source sum to the source's
\* total, and are all 0 in every row without one.
C30_CommissionsSumToTotalWhenTips ==
    pc = "tips_filled" /\ tip_totals_by_source_name # <<>> => CommissionsAgree

\* A matched row whose total 16.50 is spread over two columns: 3.50 in
\* scanio, and 10 plus the remainder 3 in sea_and_air; next to an unmatched
\* row whose old commission was set to 0.
C30_Witness ==
    /\ pc = "tips_filled"
    /\ \E i \in MatchedEntries :
           /\ CellCents(employee_rows[i].row_number, colI) = 1300
           /\ CellCents(employee_rows[i].row_number, colH) = 350
           /\ amount_of(tip_totals_by_source_name, TipSourceOf(i)) = 1650
    /\ \E i \in 1..Len(employee_rows) :
           /\ i \notin MatchedEntries
           /\ ValueAt(employee_rows[i].row_number, colH) = << Decimal(FALSE, 0, <<>>) >>

(***************************************************************************)
(* Exact matches against the other passes (SpecMatch)                      *)
(***************************************************************************)
\* The candidates whose normalized name is normalized.
CandidatesNamed(normalized) ==
    {k \in 1..Len(workbook_names) : normalize_name(workbook_names[k]) = normalized}

\* Query i has the normalized name of exactly one candidate and of no other
\* query.
ExactlyOne(i, normalized) ==
    /\ Cardinality(CandidatesNamed(normalized)) = 1
    /\ \A j \in 1..Len(source_names) :
           j # i => normalize_name(source_names[j]) # normalized

MappedToNamed(source_name, normalized) ==
    \E m \in 1..Len(source_to_workbook) :
        /\ source_to_workbook[m].source = source_name
        /\ normalize_name(source_to_workbook[m].workbook) = normalized

\* C29: when match_names is through, every query whose normalized name is
\* that of exactly one candidate and of no other query is mapped to that
\* candidate, whatever the order of the queries and the other queries are.
\* (The code settles the queries one after the other, each through all
\* passes: an earlier query claims the candidate by its first/last pair.)
C29_ExactMatchNeverDisplaced ==
    qi > Len(source_names) =>
        \A i \in 1..Len(source_names) :
            ExactlyOne(i, normalize_name(source_names[i])) =>
                MappedToNamed(source_names[i], normalize_name(source_names[i]))

(***************************************************************************)
(* SpecRow: the formulas of one employee row and the values they compute   *)
(***************************************************************************)
MaxHalfHours == 4

\* Arithmetic of the worksheet on exact fractions.
RECURSIVE gcd(_, _)
gcd(a, b) == IF b = 0 THEN a ELSE gcd(b, a % b)

\* num / den in lowest terms (den > 0).
lowest_terms(num, den) ==
    Frac(num \div gcd(IF num < 0 THEN 0 - num ELSE num, den),
         den \div gcd(IF num < 0 THEN 0 - num ELSE num, den))

FracAdd(x, y) == lowest_terms(x.num * y.den + y.num * x.den, x.den * y.den)

FracEq(x, y) == x.num * y.den = y.num * x.den

\* The number a decimal text of a cell stands for.
number_of(decimal) == lowest_terms(cents_of(decimal), 100)

\* The value the spreadsheet computes for a cell of the row: its number, or
\* the value of its formula, for the formulas of set_employee_row_formulas
\* that the total reads: SUM over the cells of the row between two columns
\* (an absent cell adds nothing), the sum of three cells, and the quotient
\* that IFERROR turns into 0 when the divisor is 0.
RECURSIVE cell_value(_, _, _)
RECURSIVE range_value(_, _, _, _, _)
formula_value(cells, row_number, formula) ==
    IF formula.fn = "SUM(_:_)"
    THEN range_value(cells, row_number, column_index(formula.refs[1].col),
                     column_index(formula.refs[2].col), 1)
    ELSE IF formula.fn = "_+_+_"
    THEN FracAdd(cell_value(cells, row_number, formula.refs[1].col),
                 FracAdd(cell_value(cells, row_number, formula.refs[2].col),
                         cell_value(cells, row_number, formula.refs[3].col)))
    ELSE LET divisor == cell_value(cells, row_number, formula.refs[2].col)
             dividend == cell_value(cells, row_number, formula.refs[1].col)
         IN  IF divisor.num = 0 THEN Frac(0, 1)
             ELSE lowest_terms(dividend.num * divisor.den, dividend.den * divisor.num)

cell_value(cells, row_number, column) ==
    LET i == cell_index(cells, column, row_number)
    IN  IF i = 0 THEN Frac(0, 1)
        ELSE IF cells[i].f # <<>> THEN formula_value(cells, row_number, cells[i].f[1])
        ELSE IF cells[i].v = <<>> THEN Frac(0, 1)
        ELSE number_of(cells[i].v[1])

range_value(cells, row_number, first, last, i) ==
    IF i > Len(cells) THEN Frac(0, 1)
    ELSE IF first <= column_index(cells[i].col) /\ column_index(cells[i].col) <= last
    THEN FracAdd(cell_value(cells, row_number, cells[i].col),
                 range_value(cells, row_number, first, last, i + 1))
    ELSE range_value(cells, row_number, first, last, i + 1)

\* One employee row of the template, at row 5.
InitRow ==
    /\ sheet = EmployeeSheet(<< AnnLee >>)
    /\ prev = sheet
    /\ lastOp = NoOp
    /\ nOps = 0
    /\ pc = "row_formulas"
    /\ counts = <<>>
    /\ insertions = <<>>
    /\ company_slots = <<>>
    /\ cur = 0
    /\ writes = 0
    /\ reimbursement_row = 0
    /\ employee_rows = EmployeeRowsOf(<< AnnLee >>)
    /\ MatchIdle
    /\ LaterIdle

\* build_employee_rows_from_roster on the row: set_employee_row_formulas.
WriteRowFormulas ==
    /\ pc = "row_formulas"
    /\ sheet' = [sheet EXCEPT !.rows =
                    apply_writes(sheet.rows,
                                 set_employee_row_formulas(employee_rows[1].row_number))]
    /\ prev' = sheet
    /\ lastOp' = [NoOp EXCEPT !.op = "formulas", !.tgt = employee_rows[1].row_number]
    /\ pc' = "row_hours"
    /\ UNCHANGED <<nOps, otherFillVars, matchVars, laterVars>>

\* The employee loop of fill_workbook on the row: the hours of the three
\* companies, in minutes.
WriteRowHours ==
    /\ pc = "row_hours"
    /\ \E scanio \in 0..MaxHalfHours, sea_and_air \in 0..MaxHalfHours,
          flat_price \in 0..MaxHalfHours :
          sheet' = [sheet EXCEPT !.rows =
                       apply_writes(sheet.rows,
                           entry_hour_writes(employee_rows[1],
                               [scanio |-> 30 * scanio,
                                sea_and_air |-> 30 * sea_and_air,
                                flat_price |-> 30 * flat_price]))]
    /\ prev' = sheet
    /\ lastOp' = [NoOp EXCEPT !.op = "entry", !.tgt = employee_rows[1].row_number]
    /\ pc' = "row_filled"
    /\ UNCHANGED <<nOps, otherFillVars, matchVars, laterVars>>

NextRow == WriteRowFormulas \/ WriteRowHours

SpecRow == InitRow /\ [][NextRow]_vars

\* The cells of the employee row of SpecRow.
RowCells == sheet.rows[row_index(sheet.rows, employee_rows[1].row_number)].cells

\* The hours of the three companies in the row.
CompanyHours ==
    FracAdd(cell_value(RowCells, employee_rows[1].row_number, colK),
            FracAdd(cell_value(RowCells, employee_rows[1].row_number, colM),
                    cell_value(RowCells, employee_rows[1].row_number, colO)))

\* C27: the total-hours formula that set_employee_row_formulas writes in
\* column D has the value K + M + O of its row for every assignment of
\* hours, also when the fraction columns L and N are not zero.
\* (The code writes SUM(K:O), a range that holds L and N as well.)
C27_TotalHoursAreCompanyHours ==
    pc = "row_filled" =>
        FracEq(cell_value(RowCells, employee_rows[1].row_number, colD), CompanyHours)

(***************************************************************************)
(* Reading the employees back from a filled sheet (Spec)                   *)
(***************************************************************************)
\* payroll_web_app.TEMPLATE_COMPANY_ROW_SLOTS: the fixed slot rows.
TEMPLATE_COMPANY_ROW_SLOTS ==
    << Range(5, 25), Range(33, 39), Range(47, 56), Range(64, 85) >>

\* The shared string at an index of the template's string table.
shared_strings(idx) == "s" \o ToString(idx)

\* cell_string_value: the shared string of a cell of type "s", the text of
\* an inline string, else the text of the value; "" stands for None (the
\* caller reads raw_name or "").  cell is a sequence of at most one cell.
cell_string_value(cell) ==
    IF cell = <<>> THEN ""
    ELSE IF cell[1].t = "s"
    THEN (IF cell[1].v = <<>> THEN "" ELSE shared_strings(cell[1].v[1]))
    ELSE IF cell[1].t = "inlineStr"
    THEN (IF cell[1].is = <<>> THEN "" ELSE cell[1].is[1])
    ELSE IF cell[1].v = <<>> THEN "" ELSE ToString(cell[1].v[1])

\* cell_numeric_value, with 0 for None (the caller reads 0.0 for None).
cell_numeric_value(cell) ==
    IF cell = <<>> \/ cell[1].v = <<>> THEN 0 ELSE cell[1].v[1]

\* cells.get(column) in row_lookup.get(row_num, {}): the last cell of the
\* row numbered row_num whose address names the column.
lookup_cell(rows, row_num, column) ==
    LET r == IF \E i \in 1..Len(rows) : rows[i].r = row_num
             THEN CHOOSE i \in 1..Len(rows) :
                      /\ rows[i].r = row_num
                      /\ \A j \in (i + 1)..Len(rows) : rows[j].r # row_num
             ELSE 0
    IN  IF r = 0 THEN <<>>
        ELSE LET cells == rows[r].cells
             IN  IF \E i \in 1..Len(cells) : cells[i].col = column
                 THEN << cells[CHOOSE i \in 1..Len(cells) :
                                   /\ cells[i].col = column
                                   /\ \A j \in (i + 1)..Len(cells) :
                                          cells[j].col # column] >>
                 ELSE <<>>

\* The fixed slots in the order template_employees visits them.
FixedSlots ==
    Flatten([c \in 1..Len(Companies) |->
                [i \in 1..Len(TEMPLATE_COMPANY_ROW_SLOTS[c]) |->
                    [home_company |-> c, row_num |-> TEMPLATE_COMPANY_ROW_SLOTS[c][i]]]])

\* The loop of template_employees from the k-th fixed slot on: a slot
\* without name is skipped, and so is a name seen before.  (The names of a
\* roster are lower-case and hold no spaces, as load_roster leaves them.)
RECURSIVE template_employees_from(_, _, _, _)
template_employees_from(rows, slots, k, output) ==
    IF k > Len(slots) THEN output
    ELSE LET name == cell_string_value(lookup_cell(rows, slots[k].row_num, colB))
         IN  IF name = "" \/ \E i \in 1..Len(output) : output[i].name = name
             THEN template_employees_from(rows, slots, k + 1, output)
             ELSE template_employees_from(rows, slots, k + 1,
                      Append(output,
                             [name |-> name,
                              home_company |-> slots[k].home_company,
                              rate |-> cell_numeric_value(
                                           lookup_cell(rows, slots[k].row_num, colC))]))

template_employees(rows) == template_employees_from(rows, FixedSlots, 1, <<>>)

\* The roster that the fill wrote: counts[c] entries for company c.
RosterEntries ==
    UNION {{[name |-> EntryName(c, k), home_company |-> c, rate |-> EntryRate(c, k)] :
               k \in 1..counts[c]} : c \in 1..Len(Companies)}

\* C22: the employees that template_employees reads from the fixed slot
\* rows of the output of a roster-driven fill are exactly the entries of
\* the roster (names, home companies, rates), also when a section overflows.
\* (The code reads the template's rows: an inserted row and the last rows of
\* the sections pushed down are not among them.)
C22_RosterReadBack ==
    pc = "done" =>
        {template_employees(sheet.rows)[i] :
            i \in 1..Len(template_employees(sheet.rows))} = RosterEntries

(***************************************************************************)
(* The placement of the roster in the slot rows (Spec)                     *)
(***************************************************************************)
\* The inline text of the cell column + row_number, as a sequence.
InlineAt(row_number, column) ==
    LET r == row_index(sheet.rows, row_number)
    IN  IF r = 0 THEN <<>>
        ELSE LET i == cell_index(sheet.rows[r].cells, column, row_number)
             IN  IF i = 0 \/ sheet.rows[r].cells[i].t # "inlineStr" THEN <<>>
                 ELSE sheet.rows[r].cells[i].is

\* The employee rows that hold the k-th entry of company c.
RowsOfEntry(c, k) ==
    {i \in 1..Len(employee_rows) :
        /\ employee_rows[i].workbook_name = EntryName(c, k)
        /\ employee_rows[i].home_company = c}

\* Every entry of the roster has one employee row, and every employee row
\* is the row of an entry.
EntriesAndRowsCorrespond ==
    /\ Len(employee_rows) = SumSeq([c \in 1..Len(Companies) |-> counts[c]])
    /\ \A c \in 1..Len(Companies) : \A k \in 1..counts[c] :
           Cardinality(RowsOfEntry(c, k)) = 1
    /\ \A i, j \in 1..Len(employee_rows) :
           employee_rows[i].row_number = employee_rows[j].row_number => i = j

\* The k-th entry of company c, in the order of the normalized names, is in
\* the k-th slot of the company, with its name and rate in the sheet.
EntriesInFirstSlots ==
    \A c \in 1..Len(Companies) : \A k \in 1..counts[c] :
        /\ k <= Len(company_slots[c])
        /\ \A i \in RowsOfEntry(c, k) : employee_rows[i].row_number = company_slots[c][k]
        /\ InlineAt(company_slots[c][k], colB) = << EntryName(c, k) >>
        /\ ValueAt(company_slots[c][k], colC) = << EntryRate(c, k) >>

\* The slots of a section after the entries are blank: no name, rate 0,
\* commissions and hours 0.
RemainingSlotsBlank ==
    \A c \in 1..Len(Companies) : \A idx \in (counts[c] + 1)..Len(company_slots[c]) :
        /\ InlineAt(company_slots[c][idx], colB) = << "" >>
        /\ \A column \in {colC, colH, colI, colJ, colK, colM, colO} :
               ValueAt(company_slots[c][idx], column) = << 0 >>

MaxRenumberRow == 4
RenumberDeltas == {-2, -1, 1, 2}

\* rows_sorted in document order (no sort).
rows_sorted_document(rows, delta) == [k \in 1..Len(rows) |-> k]

\* sorted(rows, key=row number, reverse=delta > 0), as the document
\* positions of the rows; rows of one number keep their document order.
rows_sorted(rows, delta) ==
    LET before(j, i) == \/ delta > 0 /\ rows[j].r > rows[i].r
                        \/ delta <= 0 /\ rows[j].r < rows[i].r
                        \/ rows[j].r = rows[i].r /\ j < i
    IN  [k \in 1..Len(rows) |->
            CHOOSE i \in 1..Len(rows) :
                Cardinality({j \in 1..Len(rows) : before(j, i)}) = k - 1]

\* A row of a sheet whose cell holds a formula naming its own row.
RenumberRow(r) ==
    Row(r, << Cell(colA, r, "", <<>>, <<>>, <<r>>, <<>>),
              Cell(colB, r, "", << Formula("_*2", << Rel(colA, r) >>) >>,
                   <<>>, <<>>, <<>>) >>, r)

\* The rows numbered by a set of numbers, in ascending document order.
RECURSIVE AscendingRows(_)
AscendingRows(numbers) ==
    IF numbers = {} THEN <<>>
    ELSE LET least == CHOOSE n \in numbers : \A m \in numbers : n <= m
         IN  << RenumberRow(least) >> \o AscendingRows(numbers \ {least})

Reversed(s) == [i \in 1..Len(s) |-> s[Len(s) + 1 - i]]

\* Sheets with distinct row numbers, in ascending or descending document
\* order.
InitRenumber ==
    /\ \E numbers \in SUBSET (1..MaxRenumberRow), descending \in BOOLEAN :
          /\ numbers # {}
          /\ sheet = [rows   |-> IF descending THEN Reversed(AscendingRows(numbers))
                                 ELSE AscendingRows(numbers),
                      merges |-> << << Rel(colA, 1), Rel(colB, MaxRenumberRow) >> >>,
                      dim    |-> << Rel(colA, 1), Rel(colB, MaxRenumberRow) >>]
    /\ prev = sheet
    /\ lastOp = NoOp
    /\ nOps = 0
    /\ pc = "call"
    /\ counts = <<>>
    /\ insertions = <<>>
    /\ company_slots = <<>>
    /\ cur = 0
    /\ writes = 0
    /\ reimbursement_row = 0
    /\ employee_rows = <<>>
    /\ MatchIdle
    /\ LaterIdle

\* The call shift_rows_in_sheet(sheet_root, start_row, delta) up to the
\* row loop; delta = 0 returns at once.
StartRenumber ==
    /\ pc = "call"
    /\ \E start_row \in 1..(MaxRenumberRow + 1), delta \in RenumberDeltas \cup {0} :
          /\ lastOp' = [op |-> "shift", start_row |-> start_row, delta |-> delta,
                        src |-> 0, tgt |-> 0]
          /\ pc' = IF delta = 0 THEN "shifted" ELSE "renumber"
    /\ prev' = sheet
    /\ cur' = 1
    /\ UNCHANGED <<sheet, nOps, counts, insertions, company_slots, writes,
                   reimbursement_row, employee_rows, matchVars, laterVars>>

\* One iteration of the row loop: the row element rows_sorted[cur] gets its
\* new number, cell addresses and formulas.  lastOp keeps the numbers the
\* element of this iteration (tgt) and of the one before (src) had at the
\* call.
RenumberNext ==
    /\ pc = "renumber"
    /\ cur <= Len(prev.rows)
    /\ LET i == rows_sorted(prev.rows, lastOp.delta)[cur]
       IN  /\ sheet' = [sheet EXCEPT
                           !.rows[i] = shift_row(sheet.rows[i], lastOp.start_row,
                                                 lastOp.delta)]
           /\ lastOp' = [lastOp EXCEPT !.src = lastOp.tgt, !.tgt = prev.rows[i].r]
    /\ cur' = cur + 1
    /\ UNCHANGED <<prev, nOps, pc, counts, insertions, company_slots, writes,
                   reimbursement_row, employee_rows, matchVars, laterVars>>

\* After the row loop: the merged ranges and the dimension.
ShiftRanges ==
    /\ pc = "renumber"
    /\ cur > Len(prev.rows)
    /\ sheet' = [sheet EXCEPT
                    !.merges = MapSeq(sheet.merges,
                                      LAMBDA ref : shift_ref_rows(ref, lastOp.start_row,
                                                                  lastOp.delta)),
                    !.dim = shift_ref_rows(sheet.dim, lastOp.start_row, lastOp.delta)]
    /\ pc' = "shifted"
    /\ UNCHANGED <<prev, lastOp, nOps, counts, insertions, company_slots, cur, writes,
                   reimbursement_row, employee_rows, matchVars, laterVars>>

NextRenumber == StartRenumber \/ RenumberNext \/ ShiftRanges

SpecRenumber == InitRenumber /\ [][NextRenumber]_vars

\* No two row elements carry one row number.
RowNumbersDistinct ==
    \A i, j \in 1..Len(sheet.rows) : sheet.rows[i].r = sheet.rows[j].r => i = j

\* The row of this iteration comes after the row of the one before in the
\* order of the call: descending for delta > 0, ascending for delta < 0.
RenumberedInOrder ==
    (lastOp.src # 0 /\ lastOp.tgt # 0) =>
        /\ lastOp.delta > 0 => lastOp.tgt < lastOp.src
        /\ lastOp.delta < 0 => lastOp.tgt > lastOp.src

\* A negative shift moves rows onto numbers that no row has: the rows
\* numbered start_row + delta .. start_row - 1 are absent at the call.
TargetRowsFree ==
    lastOp.delta < 0 =>
        \A i \in 1..Len(prev.rows) :
            ~(lastOp.start_row + lastOp.delta <= prev.rows[i].r
              /\ prev.rows[i].r < lastOp.start_row)

\* C26 as stated: shift_rows_in_sheet renumbers the rows in descending
\* order of their numbers when delta > 0 and in ascending order when
\* delta < 0, and at no step of the renumbering two row elements carry one
\* row number, the row numbers being distinct at the call.
C26_NoCollisionWhileRenumbering ==
    pc \in {"renumber", "shifted"} => RenumberedInOrder /\ RowNumbersDistinct

\* C26 amended: the same, for a call whose negative delta moves rows only
\* onto row numbers that no row has at the call.
C26_NoCollisionOnFreeRows ==
    (pc \in {"renumber", "shifted"} /\ TargetRowsFree) =>
        /\ RenumberedInOrder
        /\ RowNumbersDistinct
        /\ pc = "shifted" =>
               sheet = shift_rows_in_sheet(prev, lastOp.start_row, lastOp.delta)

\* In the middle of a shift by 1 of two neighbouring rows: the lower row
\* still has its number, the upper one has moved out of its way.
C26_Witness ==
    /\ pc = "renumber"
    /\ lastOp.delta = 1
    /\ cur = 2
    /\ Len(prev.rows) >= 2
    /\ \E i, j \in 1..Len(prev.rows) :
          /\ prev.rows[i].r >= lastOp.start_row
          /\ prev.rows[j].r = prev.rows[i].r + 1
          /\ sheet.rows[j].r = prev.rows[j].r + 1
          /\ sheet.rows[i].r = prev.rows[i].r

(***************************************************************************)
(* SpecCells: sequences of setter, shift and clone calls on a small sheet  *)
(***************************************************************************)
MaxCellOps == 2

\* The columns the calls write: those of the cells that the pool holds.
CellColumns == {colA, colB, colC}

\* The decimal text that the calls write, and the text of a value that the
\* template holds.
WrittenValue == Decimal(FALSE, 7, <<5>>)

HeldValue == Decimal(FALSE, 0, <<>>)

WrittenFormula(row_number) == Formula("_*2", << Rel(colA, row_number) >>)

\* Rows of a template, one per kind of content: a number and a formula with
\* its cached value; a string-result formula with its cached value; a
\* shared string and an inline string.
CellRowPool ==
    << Row(1, << Cell(colA, 1, "", <<>>, <<>>, <<HeldValue>>, <<>>),
                 Cell(colC, 1, "", << Formula("_+1", << Rel(colA, 1) >>) >>, <<>>,
                      <<HeldValue>>, <<>>) >>, 1),
       Row(2, << Cell(colB, 2, "str", << Formula("T(_)", << Rel(colC, 2) >>) >>, <<>>,
                      <<HeldValue>>, <<>>) >>, 2),
       Row(3, << Cell(colB, 3, "s", <<>>, <<>>, <<HeldValue>>, <<>>),
                 Cell(colC, 3, "inlineStr", <<>>, <<>>, <<>>, << "x" >>) >>, 3) >>

\* The row numbers the calls name: those of the pool.
CellRowNumbers == 1..Len(CellRowPool)

InitCells ==
    /\ \E numbers \in SUBSET (1..Len(CellRowPool)) :
          sheet = [rows   |-> SelectSeq(CellRowPool, LAMBDA row : row.r \in numbers),
                   merges |-> <<>>,
                   dim    |-> << Rel(colA, 1), Rel(colC, Len(CellRowPool)) >>]
    /\ prev = sheet
    /\ lastOp = NoOp
    /\ nOps = 0
    /\ FillIdle
    /\ MatchIdle
    /\ LaterIdle

\* The record of a setter call: the row (tgt), the index of the column
\* (src) and preserve_formula (delta = 1).
SetterOp(op, row_number, column, preserve_formula) ==
    [op |-> op, start_row |-> 0, delta |-> IF preserve_formula THEN 1 ELSE 0,
     src |-> column_index(column), tgt |-> row_number]

\* get_or_create_row(sheet_data, row_number)
GetOrCreateRow ==
    /\ nOps < MaxCellOps
    /\ \E row_number \in CellRowNumbers :
          /\ sheet' = [sheet EXCEPT !.rows =
                          get_or_create_row(sheet.rows, row_number)]
          /\ lastOp' = SetterOp("row", row_number, colA, FALSE)
    /\ prev' = sheet
    /\ nOps' = nOps + 1
    /\ UNCHANGED <<fillVars, matchVars, laterVars>>

\* set_numeric_cell(get_or_create_row(sheet_data, row_number), row_number,
\* column, value, preserve_formula)
SetNumericCell ==
    /\ nOps < MaxCellOps
    /\ \E row_number \in CellRowNumbers, column \in CellColumns,
          preserve_formula \in BOOLEAN :
          /\ sheet' = [sheet EXCEPT !.rows =
                          apply_write(sheet.rows,
                              NWrite(row_number, column, WrittenValue,
                                     preserve_formula))]
          /\ lastOp' = SetterOp("numeric", row_number, column, preserve_formula)
    /\ prev' = sheet
    /\ nOps' = nOps + 1
    /\ UNCHANGED <<fillVars, matchVars, laterVars>>

\* set_inline_string_cell(get_or_create_row(sheet_data, row_number),
\* row_number, column, value)
SetInlineStringCell ==
    /\ nOps < MaxCellOps
    /\ \E row_number \in CellRowNumbers, column \in CellColumns :
          /\ sheet' = [sheet EXCEPT !.rows =
                          apply_write(sheet.rows, SWrite(row_number, column, "y"))]
          /\ lastOp' = SetterOp("inline", row_number, column, FALSE)
    /\ prev' = sheet
    /\ nOps' = nOps + 1
    /\ UNCHANGED <<fillVars, matchVars, laterVars>>

\* set_formula_cell(sheet_data, row_number, column, formula)
SetFormulaCell ==
    /\ nOps < MaxCellOps
    /\ \E row_number \in CellRowNumbers, column \in CellColumns :
          /\ sheet' = [sheet EXCEPT !.rows =
                          set_formula_cell(sheet.rows, row_number, column,
                                           WrittenFormula(row_number), "")]
          /\ lastOp' = SetterOp("formula", row_number, column, FALSE)
    /\ prev' = sheet
    /\ nOps' = nOps + 1
    /\ UNCHANGED <<fillVars, matchVars, laterVars>>

\* set_formula_string_cell(sheet_data, row_number, column, formula)
SetFormulaStringCell ==
    /\ nOps < MaxCellOps
    /\ \E row_number \in CellRowNumbers, column \in CellColumns :
          /\ sheet' = [sheet EXCEPT !.rows =
                          set_formula_string_cell(sheet.rows, row_number, column,
                                                  WrittenFormula(row_number))]
          /\ lastOp' = SetterOp("formula_string", row_number, column, FALSE)
    /\ prev' = sheet
    /\ nOps' = nOps + 1
    /\ UNCHANGED <<fillVars, matchVars, laterVars>>

\* shift_rows_in_sheet(sheet_root, start_row, delta) with delta > 0
ShiftRowsDown ==
    \E start_row \in CellRowNumbers \cup {Len(CellRowPool) + 1}, delta \in {1} :
        /\ nOps < MaxCellOps
        /\ sheet' = shift_rows_in_sheet(sheet, start_row, delta)
        /\ lastOp' = [op |-> "shift", start_row |-> start_row, delta |-> delta,
                      src |-> 0, tgt |-> 0]
        /\ prev' = sheet
        /\ nOps' = nOps + 1
        /\ UNCHANGED <<fillVars, matchVars, laterVars>>

\* clone_template_row(sheet_data, template_row, target_row) as the overflow
\* loop calls it: the target is a row number that no row has.
CloneIntoFreeRow ==
    /\ nOps < MaxCellOps
    /\ \E i \in 1..Len(sheet.rows), target_row \in CellRowNumbers \cup {Len(CellRowPool) + 1} :
          /\ target_row \notin RowNumbers(sheet.rows)
          /\ sheet' = [sheet EXCEPT !.rows =
                          clone_template_row(sheet.rows, sheet.rows[i], target_row)]
          /\ lastOp' = [op |-> "clone", start_row |-> 0, delta |-> 0,
                        src |-> sheet.rows[i].r, tgt |-> target_row]
    /\ prev' = sheet
    /\ nOps' = nOps + 1
    /\ UNCHANGED <<fillVars, matchVars, laterVars>>

NextCells ==
    \/ GetOrCreateRow
    \/ SetNumericCell
    \/ SetInlineStringCell
    \/ SetFormulaCell
    \/ SetFormulaStringCell
    \/ ShiftRowsDown
    \/ CloneIntoFreeRow

SpecCells == InitCells /\ [][NextCells]_vars

\* The setter call that lastOp records, made on rows.
LastColumn == CHOOSE column \in CellColumns : column_index(column) = lastOp.src

SetterCall(rows) ==
    IF lastOp.op = "row" THEN get_or_create_row(rows, lastOp.tgt)
    ELSE IF lastOp.op = "numeric"
    THEN apply_write(rows, NWrite(lastOp.tgt, LastColumn, WrittenValue, lastOp.delta = 1))
    ELSE IF lastOp.op = "inline"
    THEN apply_write(rows, SWrite(lastOp.tgt, LastColumn, "y"))
    ELSE IF lastOp.op = "formula"
    THEN set_formula_cell(rows, lastOp.tgt, LastColumn, WrittenFormula(lastOp.tgt), "")
    ELSE set_formula_string_cell(rows, lastOp.tgt, LastColumn, WrittenFormula(lastOp.tgt))

\* C23: every setter is idempotent: whatever the sheet was before a call,
\* the same call made a second time leaves the rows, cells, attributes and
\* children as the first call left them.
C23_SettersIdempotent ==
    lastOp.op \in {"row", "numeric", "inline", "formula", "formula_string"} =>
        SetterCall(sheet.rows) = sheet.rows

\* A setter has created a row and a cell, and a second call with the same
\* arguments would find both.
C23_Witness ==
    /\ lastOp.op \in {"numeric", "inline", "formula", "formula_string"}
    /\ Len(sheet.rows) = Len(prev.rows) + 1
    /\ nOps = MaxCellOps
    /\ row_index(sheet.rows, lastOp.tgt) # 0
    /\ Len(sheet.rows[row_index(sheet.rows, lastOp.tgt)].cells) = 1

\* The rows ascend strictly by row number.
RowsAscending ==
    \A i \in 1..(Len(sheet.rows) - 1) : sheet.rows[i].r < sheet.rows[i + 1].r

\* The cells of every row ascend strictly by column index, in their row.
CellsAscending ==
    \A i \in 1..Len(sheet.rows) :
        /\ \A j \in 1..(Len(sheet.rows[i].cells) - 1) :
               column_index(sheet.rows[i].cells[j].col)
                   < column_index(sheet.rows[i].cells[j + 1].col)
        /\ \A j \in 1..Len(sheet.rows[i].cells) :
               sheet.rows[i].cells[j].row = sheet.rows[i].r

\* C24: from a sheet whose rows ascend strictly by row number and whose
\* cells ascend strictly by column index in each row, every sequence of
\* get_or_create_row, the setters, shift_rows_in_sheet with delta > 0 and
\* the overflow calls of clone_template_row keeps both orders strict: no
\* two rows share a number, no two cells an address.
C24_OrdersKept == RowsAscending /\ CellsAscending

\* A call has put a cell between two cells of a row, after a call that put
\* a row between two rows.
C24_Witness ==
    /\ nOps = 2
    /\ lastOp.op \in {"numeric", "inline", "formula", "formula_string"}
    /\ Len(prev.rows) = Len(sheet.rows)
    /\ \E i \in 2..(Len(sheet.rows) - 1) : sheet.rows[i].id = 0
    /\ \E i \in 1..Len(sheet.rows) :
          /\ Len(sheet.rows[i].cells) = 3
          /\ Len(prev.rows[i].cells) = 2
          /\ sheet.rows[i].cells[2].col = colB

\* The cell a setter call was made on, as a sequence of at most one cell.
CellOfCall(sh) ==
    LET r == row_index(sh.rows, lastOp.tgt)
    IN  IF r = 0 THEN <<>>
        ELSE SelectSeq(sh.rows[r].cells,
                       LAMBDA c : column_index(c.col) = lastOp.src /\ c.row = lastOp.tgt)

\* The number of content children of a cell: value, formula, inline string.
ContentChildren(c) == Len(c.v) + Len(c.f) + Len(c.is)

\* The cell has one content child, of the kind of the call, and the type
\* attribute of that kind.
ContentOfCall(c) ==
    /\ ContentChildren(c) = 1
    /\ lastOp.op = "numeric" => c.v # <<>> /\ c.t = ""
    /\ lastOp.op = "inline" => c.is # <<>> /\ c.t = "inlineStr"
    /\ lastOp.op = "formula" => c.f # <<>> /\ c.t = ""
    /\ lastOp.op = "formula_string" => c.f # <<>> /\ c.t = "str"

\* The call was set_numeric_cell with preserve_formula on a cell that held
\* a formula: the call returns before it writes.
PreservedFormula ==
    /\ lastOp.op = "numeric"
    /\ lastOp.delta = 1
    /\ CellOfCall(prev) # <<>>
    /\ CellOfCall(prev)[1].f # <<>>

\* C25 as stated: after any setter call on a cell, the cell has exactly one
\* content child among value, formula and inline string, and its type
\* attribute agrees with it; content of the previous kind is removed.
C25_OneContentAfterSetter ==
    lastOp.op \in {"numeric", "inline", "formula", "formula_string"} =>
        /\ Len(CellOfCall(sheet)) = 1
        /\ ContentOfCall(CellOfCall(sheet)[1])

\* C25 amended: the same after every setter call that writes, which is
\* every call but set_numeric_cell with preserve_formula on a cell that
\* holds a formula; that call leaves the cell as it was.
C25_OneContentAfterWrite ==
    lastOp.op \in {"numeric", "inline", "formula", "formula_string"} =>
        /\ Len(CellOfCall(sheet)) = 1
        /\ IF PreservedFormula
           THEN CellOfCall(sheet) = CellOfCall(prev)
           ELSE ContentOfCall(CellOfCall(sheet)[1])

\* A number has replaced a shared string: the stale type is gone.
C25_Witness ==
    /\ lastOp.op = "numeric"
    /\ CellOfCall(prev) # <<>>
    /\ CellOfCall(prev)[1].t = "s"
    /\ CellOfCall(sheet)[1].t = ""
    /\ CellOfCall(sheet)[1].v = << WrittenValue >>

(***************************************************************************)
(* SpecAddress: fill_workbook on a template with a malformed cell address  *)
(***************************************************************************)
MaxAddressOverflow == 1

\* The shared strings of the template: "Total" at 0, the section labels at
\* 1001..1004, a name at every other index.
WORD_TOTAL == << "T", "o", "t", "a", "l" >>

SectionLabels ==
    << << "S", "c", "a", "n", "i", "o", " ", "M", "o", "v", "i", "n", "g" >>,
       << "S", "c", "a", "n", "i", "o", " ", " ", "S", "t", "o", "r", "a", "g", "e" >>,
       << "S", "e", "a", " ", "&", " ", "A", "i", "r", " ", "I", "n", "t", "l" >>,
       << "F", "l", "a", "t", " ", "P", "r", "i", "c", "e" >> >>

template_shared_strings(idx) ==
    IF idx = 0 THEN WORD_TOTAL
    ELSE IF idx > 1000 THEN SectionLabels[idx - 1000]
    ELSE AnnLee

\* parse_home_company_label: the index of the company, 0 for None.
parse_home_company_label(value) ==
    LET text == MapSeq(normalize_spaces(value), upper)
    IN  IF text = <<>> THEN 0
        ELSE IF contains(text, WORD_SCANIO \o << " ", "M", "O", "V", "I", "N", "G" >>) THEN 1
        ELSE IF contains(text, WORD_SCANIO \o << " ", "S", "T", "O", "R", "A", "G", "E" >>)
        THEN 2
        ELSE IF contains(text, WORD_SEA) /\ contains(text, WORD_AIR) THEN 3
        ELSE IF contains(text, WORD_FLAT) THEN 4
        ELSE 0

\* get_row_cells raises when parse_cell_ref does not match an address.
get_row_cells_raises(row) ==
    \E i \in 1..Len(row.cells) : ~CELL_REF_RE_fullmatch(row.cells[i])

\* cell_map.get(column) of get_row_cells: the last cell of the column, as a
\* sequence of at most one cell.
cell_map_get(cells, column) ==
    IF \E i \in 1..Len(cells) : cells[i].col = column
    THEN << cells[CHOOSE i \in 1..Len(cells) :
                      /\ cells[i].col = column
                      /\ \A j \in (i + 1)..Len(cells) : cells[j].col # column] >>
    ELSE <<>>

\* get_string_cell_value: the shared string of a cell of type "s", the
\* empty sequence for None.
get_string_cell_value(cell) ==
    IF cell = <<>> \/ cell[1].t # "s" \/ cell[1].v = <<>> THEN <<>>
    ELSE template_shared_strings(cell[1].v[1])

\* The address of a cell is not the empty text.
HasAddress(cell) == ~(cell.col = <<>> /\ cell.row < 0)

\* The cell loops of shift_rows_in_sheet and clone_template_row raise for an
\* address that is not empty and that parse_cell_ref does not match.
shift_rows_raises(rows) ==
    \E i \in 1..Len(rows) : \E j \in 1..Len(rows[i].cells) :
        HasAddress(rows[i].cells[j]) /\ ~CELL_REF_RE_fullmatch(rows[i].cells[j])

\* Cells with the addresses "5", "B", "" and "b5".
MalformedCells ==
    { Cell(<<>>, 5, "", <<>>, <<>>, <<1>>, <<>>),
      Cell(colB, -1, "", <<>>, <<>>, <<1>>, <<>>),
      Cell(<<>>, -1, "", <<>>, <<>>, <<1>>, <<>>),
      Cell(<< "b" >>, 5, "", <<>>, <<>>, <<1>>, <<>>) }

\* The template with the label rows of its sections, and with the cells
\* extra at the end of the row numbered row_number.
LabelRow(company) ==
    Row(COMPANY_ROW_SLOTS[company][1] - 1,
        << Cell(colB, COMPANY_ROW_SLOTS[company][1] - 1, "s", <<>>, <<>>,
                << 1000 + company >>, <<>>) >>,
        COMPANY_ROW_SLOTS[company][1] - 1)

LabelledTemplateRows ==
    insert_row_in_order(
        insert_row_in_order(
            insert_row_in_order(
                insert_row_in_order(Template.rows, LabelRow(1)), LabelRow(2)),
            LabelRow(3)),
        LabelRow(4))

AddressTemplate(row_number, extra) ==
    [Template EXCEPT
        !.rows = [i \in 1..Len(LabelledTemplateRows) |->
                     IF LabelledTemplateRows[i].r = row_number
                     THEN [LabelledTemplateRows[i] EXCEPT !.cells = @ \o extra]
                     ELSE LabelledTemplateRows[i]]]

\* The rosters tried: no roster (the empty sequence), and the rosters with
\* employees of one company, as many as its slots or up to
\* MaxAddressOverflow more.
AddressRosters ==
    { <<>>, [c \in 1..Len(Companies) |-> 0] }
    \cup { [c \in 1..Len(Companies) |->
               IF c = k THEN Len(COMPANY_ROW_SLOTS[c]) + o ELSE 0] :
           k \in 1..Len(Companies), o \in 0..MaxAddressOverflow }

InitAddress ==
    /\ \E row_number \in {5, 91}, extra \in {<<>>} \cup {<< c >> : c \in MalformedCells} :
          sheet = AddressTemplate(row_number, extra)
    /\ prev = sheet
    /\ lastOp = NoOp
    /\ nOps = 0
    /\ counts \in AddressRosters
    /\ pc = IF counts = <<>> THEN "scan" ELSE "insert"
    /\ cur = 1
    /\ insertions = <<>>
    /\ company_slots = <<>>
    /\ writes = 0
    /\ reimbursement_row = 101
    /\ employee_rows = <<>>
    /\ MatchIdle
    /\ LaterIdle

addressUnchanged ==
    <<archive, fs, output_path, tip_summary_output_path, infolist, item_i, sheet1_bytes,
      workbook_bytes, updated_workbook_rels_bytes, remove_calc_chain_part, dataVars,
      threadVars, matchVars, nOps>>

\* One iteration of the row loop of fill_workbook without a roster.  lastOp
\* keeps current_home_company (tgt, 0 for None) and the row read (src).
ScanRow ==
    /\ pc = "scan"
    /\ cur <= Len(sheet.rows)
    /\ IF get_row_cells_raises(sheet.rows[cur])
       THEN /\ raise("ValueError")
            /\ UNCHANGED <<sheet, prev, lastOp, counts, insertions, company_slots, cur,
                           writes, reimbursement_row, employee_rows>>
       ELSE LET cells == sheet.rows[cur].cells
                section_label == get_string_cell_value(cell_map_get(cells, colB))
                parsed == parse_home_company_label(section_label)
                current == IF section_label = <<>> THEN lastOp.tgt
                           ELSE IF parsed # 0 THEN parsed
                           ELSE IF normalize_name(section_label)
                                       = << "t", "o", "t", "a", "l" >>
                           THEN 0
                           ELSE lastOp.tgt
                rate == cell_map_get(cells, colC)
            IN  /\ lastOp' = [op |-> "scan", start_row |-> 0, delta |-> 0,
                              src |-> sheet.rows[cur].r, tgt |-> current]
                /\ employee_rows' =
                       IF section_label # <<>> /\ rate # <<>> /\ rate[1].v # <<>>
                          /\ current # 0
                       THEN Append(employee_rows,
                                   [row_number |-> sheet.rows[cur].r,
                                    workbook_name |-> section_label,
                                    home_company |-> current])
                       ELSE employee_rows
                /\ pc' = IF cur = Len(sheet.rows) THEN "hours" ELSE pc
                /\ cur' = IF cur = Len(sheet.rows) THEN 0 ELSE cur + 1
                /\ UNCHANGED <<sheet, prev, counts, insertions, company_slots, writes,
                               reimbursement_row, error>>
    /\ UNCHANGED addressUnchanged

\* One iteration of the slot loop of build_employee_rows_from_roster: the
\* shift of an overflowing section reads every cell address of the sheet.
AddressInsertSection ==
    /\ pc = "insert"
    /\ IF counts[cur] > Len(COMPANY_ROW_SLOTS[cur]) /\ shift_rows_raises(sheet.rows)
       THEN /\ raise("ValueError")
            /\ UNCHANGED <<sheet, prev, lastOp, counts, insertions, company_slots, cur,
                           writes, reimbursement_row, employee_rows>>
       ELSE LET res == insert_overflow(sheet, COMPANY_ROW_SLOTS[cur], insertions,
                                       counts[cur])
            IN  /\ sheet' = res.sheet
                /\ insertions' = res.ins
                /\ company_slots' = Append(company_slots, res.slots)
                /\ lastOp' = [op |-> "section", start_row |-> res.insert_at,
                              delta |-> res.overflow, src |-> 0, tgt |-> cur]
                /\ prev' = sheet
                /\ pc' = step_after("insert", cur).pc
                /\ cur' = step_after("insert", cur).cur
                /\ UNCHANGED <<counts, writes, reimbursement_row, employee_rows, error>>
    /\ UNCHANGED addressUnchanged

NextAddress ==
    \/ ScanRow
    \/ AddressInsertSection
    \/ Refresh
    \/ PlaceSection
    \/ FillHours
    \/ WriteStatus

SpecAddress == InitAddress /\ [][NextAddress]_vars

\* The sheet holds a cell whose address is not letters, then digits.
MalformedAddress ==
    \E i \in 1..Len(sheet.rows) : get_row_cells_raises(sheet.rows[i])

\* C21: with a cell in the template whose address is not letters followed
\* by digits, fill_workbook fails in every mode, with or without a roster,
\* with or without overflow: it never gets through by skipping the cell.
C21_MalformedAddressFails ==
    MalformedAddress => pc # "done"

====
